---- MODULE Spec2Model ----
(***************************************************************************)
(* Model of the paginated fetch client of api_ingestion_pipeline           *)
(* (ApiIngestion.fetch_paginated_data and its helpers).                    *)
(*                                                                         *)
(* A decoded JSON body is a tagged value [kind, val]:                      *)
(*   "null"  None                                                          *)
(*   "num"   an integer                                                    *)
(*   "str"   a string                                                      *)
(*   "list"  a sequence of values                                          *)
(*   "dict"  an insertion-ordered sequence of [k, x] pairs                 *)
(***************************************************************************)
EXTENDS Integers, Sequences, FiniteSets, TLC

\* ------------------------------------------------------------------------
\* Bounds of the model
\* ------------------------------------------------------------------------
\* records the remote collection holds at most
MaxRecords == 5
\* largest total-page count a response declares
MaxTotal == 3
\* retry budget used by the bounded runs (the code's default is 5)
MaxRetries == 2
\* per_page argument of the bounded runs (the code's default is 100)
PerPageArg == 2

\* ------------------------------------------------------------------------
\* Program constants
\* ------------------------------------------------------------------------
\* delay: float = 2.0
DefaultDelay == 2

\* ------------------------------------------------------------------------
\* JSON values
\* ------------------------------------------------------------------------
JNull == [kind |-> "null", val |-> 0]
Num(n) == [kind |-> "num", val |-> n]
Str(s) == [kind |-> "str", val |-> s]
List(s) == [kind |-> "list", val |-> s]
Dict(s) == [kind |-> "dict", val |-> s]
KV(key, x) == [k |-> key, x |-> x]

\* isinstance(v, list) / isinstance(v, dict)
IsList(v) == v.kind = "list"
IsDict(v) == v.kind = "dict"

\* key in d
HasKey(d, key) == \E i \in 1..Len(d.val) : d.val[i].k = key

\* d[key], for a key that is present
GetKey(d, key) == d.val[CHOOSE i \in 1..Len(d.val) : d.val[i].k = key].x

\* d.get(key, default)
DictGet(d, key, default) == IF HasKey(d, key) THEN GetKey(d, key) ELSE default

\* len(v) of a list or a dict
PyLen(v) == Len(v.val)

\* truth value of a Python object: None, 0, "", [] and {} are falsy
Truthy(v) ==
    CASE v.kind = "null" -> FALSE
      [] v.kind = "num" -> v.val # 0
      [] v.kind = "str" -> v.val # ""
      [] OTHER -> Len(v.val) > 0

\* list(v): what all_data.extend(v) appends (the items of a list, the keys of a dict)
Items(v) ==
    IF IsList(v) THEN v.val
    ELSE [i \in 1..Len(v.val) |-> Str(v.val[i].k)]

\* ------------------------------------------------------------------------
\* Conversions
\* ------------------------------------------------------------------------
\* decimal texts the bounded runs use, with the number each denotes
DigitTexts == {"0", "1", "2", "3", "4", "5"}
TextValue(s) ==
    CASE s = "0" -> 0 [] s = "1" -> 1 [] s = "2" -> 2
      [] s = "3" -> 3 [] s = "4" -> 4 [] s = "5" -> 5

\* int(v) / float(v): a number converts to itself, a decimal text to the
\* number it denotes; any other text is a ValueError, any other value a
\* TypeError
PyNumber(v) ==
    CASE v.kind = "num" -> [ok |-> TRUE, n |-> v.val, err |-> "none"]
      [] v.kind = "str" /\ v.val \in DigitTexts ->
            [ok |-> TRUE, n |-> TextValue(v.val), err |-> "none"]
      [] v.kind = "str" /\ v.val \notin DigitTexts ->
            [ok |-> FALSE, n |-> 0, err |-> "ValueError"]
      [] OTHER -> [ok |-> FALSE, n |-> 0, err |-> "TypeError"]

\* ------------------------------------------------------------------------
\* ApiIngestion._find_key_recursive
\* ------------------------------------------------------------------------
RECURSIVE _find_key_recursive(_, _), FindInValues(_, _, _)

\* the loop over data.values(): the first nested result that is not None
FindInValues(pairs, i, target_key) ==
    IF i > Len(pairs) THEN JNull
    ELSE LET result == _find_key_recursive(pairs[i].x, target_key)
         IN  IF result.kind # "null" THEN result
             ELSE FindInValues(pairs, i + 1, target_key)

\* a search that looks into the nested levels before the current level
_find_key_recursive_NestedFirst(data, target_key) ==
    IF IsDict(data)
    THEN LET result == FindInValues(data.val, 1, target_key)
         IN  IF result.kind # "null" THEN result
             ELSE IF HasKey(data, target_key) THEN GetKey(data, target_key)
             ELSE JNull
    ELSE JNull

_find_key_recursive(data, target_key) ==
    IF IsDict(data)
    THEN IF HasKey(data, target_key) THEN GetKey(data, target_key)
         ELSE FindInValues(data.val, 1, target_key)
    ELSE JNull

\* ------------------------------------------------------------------------
\* The body of one successful loop iteration of fetch_paginated_data
\* ------------------------------------------------------------------------
\* data_key and total_pages_param are "" when the caller passes None
NoKey == ""
\* total_pages is None
NoTotal == -1

\* the error data[data_key] raises, "none" when it raises nothing
ExtractError(data, data_key) ==
    IF data_key = NoKey THEN "none"
    ELSE IF ~IsDict(data) THEN "TypeError"
    ELSE IF ~HasKey(data, data_key) THEN "KeyError"
    ELSE "none"

\* mutant: the positional rule asks for exactly two elements
ExtractPageData_ExactlyTwo(data, data_key) ==
    IF data_key # NoKey THEN GetKey(data, data_key)
    ELSE IF IsList(data) /\ PyLen(data) = 2 /\ IsList(data.val[2])
         THEN data.val[2]
    ELSE data

\* page_data: the three-way resolution of the record list
ExtractPageData(data, data_key) ==
    IF data_key # NoKey THEN GetKey(data, data_key)
    ELSE IF IsList(data) /\ PyLen(data) > 1 /\ IsList(data.val[2])
         THEN data.val[2]
    ELSE data

\* the body is a list whose first element is a dict (World Bank envelope)
HasMetaHead(data) == IsList(data) /\ PyLen(data) > 0 /\ IsDict(data.val[1])

\* the value int() is applied to when total_pages is still None:
\* data[0].get("pages", 1) for a list headed by a dict, else the value found
\* by the recursive search when total_pages_param is given; JNull when the
\* iteration assigns nothing to total_pages
TotalPagesSource(data, total_pages_param) ==
    IF HasMetaHead(data) THEN DictGet(data.val[1], "pages", Num(1))
    ELSE IF total_pages_param # NoKey
         THEN _find_key_recursive(data, total_pages_param)
    ELSE JNull

\* mutant: the total is read again from every response that carries one
NewTotalPages_ReadEveryPage(data, total_pages_param, total_pages) ==
    LET src == TotalPagesSource(data, total_pages_param)
    IN  IF ~HasMetaHead(data) /\ src.kind = "null" THEN total_pages
        ELSE PyNumber(src).n

\* total_pages after stop condition 2 was evaluated (no conversion error)
NewTotalPages(data, total_pages_param, total_pages) ==
    IF total_pages # NoTotal THEN total_pages
    ELSE LET src == TotalPagesSource(data, total_pages_param)
         IN  IF ~HasMetaHead(data) /\ src.kind = "null" THEN NoTotal
             ELSE PyNumber(src).n

\* the error int() raises in stop condition 2, "none" when it raises nothing
TotalPagesError(data, total_pages_param, total_pages) ==
    IF total_pages # NoTotal THEN "none"
    ELSE LET src == TotalPagesSource(data, total_pages_param)
         IN  IF ~HasMetaHead(data) /\ src.kind = "null" THEN "none"
             ELSE PyNumber(src).err

\* mutant: the last-page test is off by one
ReachedLastPage_OffByOne(page, total_pages) ==
    total_pages # NoTotal /\ page > total_pages

\* stop condition 2: page >= total_pages with a known total
ReachedLastPage(page, total_pages) ==
    total_pages # NoTotal /\ page >= total_pages

\* mutant: the partial-page test is off by one
PartialPage_OffByOne(page_data, per_page) == PyLen(page_data) + 1 < per_page

\* stop condition 3: len(page_data) < per_page
PartialPage(page_data, per_page) == PyLen(page_data) < per_page

\* mutant: a failed data[data_key] ends the fetch like an empty page
ProcessPage_MissingKeyEndsFetch(data, data_key, total_pages_param, per_page, page, total_pages, all_data) ==
    IF ExtractError(data, data_key) # "none"
    THEN [ctl |-> "break", err |-> "none",
          all_data |-> all_data, total_pages |-> total_pages]
    ELSE
    LET page_data == ExtractPageData(data, data_key) IN
    IF ~Truthy(page_data)
    THEN [ctl |-> "break", err |-> "none",
          all_data |-> all_data, total_pages |-> total_pages]
    ELSE IF page_data.kind \notin {"list", "dict"}
    THEN [ctl |-> "raise", err |-> "TypeError",
          all_data |-> all_data, total_pages |-> total_pages]
    ELSE
    LET extended == all_data \o Items(page_data) IN
    IF TotalPagesError(data, total_pages_param, total_pages) # "none"
    THEN [ctl |-> "raise",
          err |-> TotalPagesError(data, total_pages_param, total_pages),
          all_data |-> extended, total_pages |-> total_pages]
    ELSE
    LET total == NewTotalPages(data, total_pages_param, total_pages) IN
    IF ReachedLastPage(page, total) \/ PartialPage(page_data, per_page)
    THEN [ctl |-> "break", err |-> "none",
          all_data |-> extended, total_pages |-> total]
    ELSE [ctl |-> "next", err |-> "none",
          all_data |-> extended, total_pages |-> total]

\* mutant: only the response to page 1 is searched for the total
ProcessPage_TotalFromFirstPageOnly(data, data_key, total_pages_param, per_page, page, total_pages, all_data) ==
    IF ExtractError(data, data_key) # "none"
    THEN [ctl |-> "raise", err |-> ExtractError(data, data_key),
          all_data |-> all_data, total_pages |-> total_pages]
    ELSE
    LET page_data == ExtractPageData(data, data_key) IN
    IF ~Truthy(page_data)
    THEN [ctl |-> "break", err |-> "none",
          all_data |-> all_data, total_pages |-> total_pages]
    ELSE IF page_data.kind \notin {"list", "dict"}
    THEN [ctl |-> "raise", err |-> "TypeError",
          all_data |-> all_data, total_pages |-> total_pages]
    ELSE
    LET extended == all_data \o Items(page_data) IN
    IF page = 1 /\ TotalPagesError(data, total_pages_param, total_pages) # "none"
    THEN [ctl |-> "raise",
          err |-> TotalPagesError(data, total_pages_param, total_pages),
          all_data |-> extended, total_pages |-> total_pages]
    ELSE
    LET total == IF page = 1
                 THEN NewTotalPages(data, total_pages_param, total_pages)
                 ELSE total_pages IN
    IF ReachedLastPage(page, total) \/ PartialPage(page_data, per_page)
    THEN [ctl |-> "break", err |-> "none",
          all_data |-> extended, total_pages |-> total]
    ELSE [ctl |-> "next", err |-> "none",
          all_data |-> extended, total_pages |-> total]

\* Lines 111-208: what one successfully received body does to the loop.
\* ctl is "break", "next" (page += 1, retries = 0) or "raise".
ProcessPage(data, data_key, total_pages_param, per_page, page, total_pages, all_data) ==
    IF ExtractError(data, data_key) # "none"
    THEN [ctl |-> "raise", err |-> ExtractError(data, data_key),
          all_data |-> all_data, total_pages |-> total_pages]
    ELSE
    LET page_data == ExtractPageData(data, data_key) IN
    IF ~Truthy(page_data)
    THEN [ctl |-> "break", err |-> "none",
          all_data |-> all_data, total_pages |-> total_pages]
    ELSE IF page_data.kind \notin {"list", "dict"}
    THEN [ctl |-> "raise", err |-> "TypeError",
          all_data |-> all_data, total_pages |-> total_pages]
    ELSE
    LET extended == all_data \o Items(page_data) IN
    IF TotalPagesError(data, total_pages_param, total_pages) # "none"
    THEN [ctl |-> "raise",
          err |-> TotalPagesError(data, total_pages_param, total_pages),
          all_data |-> extended, total_pages |-> total_pages]
    ELSE
    LET total == NewTotalPages(data, total_pages_param, total_pages) IN
    IF ReachedLastPage(page, total) \/ PartialPage(page_data, per_page)
    THEN [ctl |-> "break", err |-> "none",
          all_data |-> extended, total_pages |-> total]
    ELSE [ctl |-> "next", err |-> "none",
          all_data |-> extended, total_pages |-> total]

\* ------------------------------------------------------------------------
\* The remote collection (the environment of one fetch)
\* ------------------------------------------------------------------------
\* envelope shapes the remote endpoint answers with
Shapes == {"keyed", "keyed_nototal", "keyed_latetotal", "keyed_items",
           "worldbank", "worldbank_nopages", "worldbank_trailer", "raw",
           "raw_scalars"}

\* shapes whose bodies carry a total-page count
DeclaresTotal(shape) == shape \in {"keyed", "keyed_latetotal", "worldbank"}

\* one raw record: a mapping with an "id" field
Rec(i) == Dict(<<KV("id", Num(i))>>)

Min(a, b) == IF a < b THEN a ELSE b

\* the records of page p when the request asks for n records per page: the
\* collection holds remote.count records, numbered 1..count, served in order;
\* pages past the end are empty
RecordsAt(remote, p, n) ==
    LET first == (p - 1) * n + 1
        last == Min(p * n, remote.count)
    IN  [i \in 1..(IF last >= first THEN last - first + 1 ELSE 0) |->
            IF remote.shape = "raw_scalars" THEN Num(first + i - 1)
            ELSE Rec(first + i - 1)]

\* the decoded body the endpoint returns for page p
Body(remote, p, n) ==
    LET recs == List(RecordsAt(remote, p, n)) IN
    CASE remote.shape = "keyed" ->
            Dict(<<KV("data", recs),
                   KV("pagination", Dict(<<KV("page", Num(p)),
                                           KV("total_pages", Num(remote.total))>>))>>)
      [] remote.shape = "keyed_nototal" ->
            Dict(<<KV("data", recs)>>)
      [] remote.shape = "keyed_items" ->
            Dict(<<KV("items", recs)>>)
      [] remote.shape = "keyed_latetotal" ->
            \* no total on page 1; from page 2 on a total that grows by one
            \* with every further page
            IF p = 1 THEN Dict(<<KV("data", recs)>>)
            ELSE Dict(<<KV("data", recs),
                        KV("pagination",
                           Dict(<<KV("page", Num(p)),
                                  KV("total_pages",
                                     Num(remote.total + p - 2))>>))>>)
      [] remote.shape = "worldbank" ->
            List(<<Dict(<<KV("page", Num(p)), KV("pages", Num(remote.total))>>),
                   recs>>)
      [] remote.shape = "worldbank_nopages" ->
            List(<<Dict(<<KV("page", Num(p))>>), recs>>)
      [] remote.shape = "worldbank_trailer" ->
            List(<<Dict(<<KV("page", Num(p))>>), recs,
                   Dict(<<KV("message", Str("ok"))>>)>>)
      [] OTHER -> recs

\* the remote collections of the bounded runs
Remotes ==
    {r \in [shape : Shapes, count : 0..MaxRecords, total : 1..MaxTotal] :
        DeclaresTotal(r.shape) \/ r.total = 1}

\* ------------------------------------------------------------------------
\* State of one call of fetch_paginated_data
\* ------------------------------------------------------------------------
VARIABLES
    remote,       \* the remote collection the endpoint serves
    args,         \* the arguments of the call
    caller,       \* reference of the caller's params mapping, 0 for None
    heap,         \* reference -> mapping (the dict objects alive)
    params,       \* the local name params: a reference, 0 for None
    per_page,     \* local per_page
    page,         \* local page
    retries,      \* local retries
    total_pages,  \* local total_pages, NoTotal for None
    all_data,     \* local all_data
    pc,           \* "start", "loop", "returned", "raised"
    err,          \* the exception that left the call, "none" otherwise
    getCalls,     \* number of session.get calls so far
    sleepCalls,   \* number of time.sleep calls so far
    lastReq,      \* page parameter of the last request sent, 0 before any
    lastSleep,    \* argument of the last time.sleep call, -1 before any
    pageReqs,     \* requests sent so far with page parameter lastReq
    pageSleeps,   \* time.sleep calls since the first request for lastReq
    pageFails,    \* transient failures the endpoint answered for lastReq
    served,       \* those three counts for the page last received well
    lastOutcome   \* what the endpoint answered to the last request

\* State of one call of WorldBankIngestion._transform_data
VARIABLES
    batch,             \* the argument data: a sequence of [name, records]
    source_i,          \* position of the for loop over data.items()
    transformed_data,  \* local transformed_data: source name -> wide table
    tpc                \* "idle", "loop", "returned", "raised"

\* State of the database and of one call of DBLoader._load_tables_concurrent
VARIABLES
    staging,      \* staging schema: table name -> <<>> (no table) or <<rows>>
    prod,         \* production schema, likewise
    inputs_df,    \* the argument inputs_df: table name -> rows
    max_workers,  \* the argument max_workers
    queue,        \* the executor's work queue: submitted loads not yet started
    load,         \* table name -> position of its load
    ops,          \* table name -> the statements its load has executed
    starts,       \* table name -> number of times its load was started
    faults,       \* the tables whose load was hit by an error from outside
    lpc,          \* the calling thread: "idle", "submit", "wait", "returned",
                  \* "crashed"
    runs,         \* number of calls made so far
    prev          \* table name -> where the preceding call left its load

\* State of one run of the pipeline: PipelineRunner.run, or DBLoader.run alone
VARIABLES
    files,            \* source filename -> state of its CSV file in the data
                      \* directory: "none", "csv", "unreadable"
    rpc,              \* position of the run
    file_i,           \* position of the loop under way
    fetched_data,     \* WorldBankIngestion.run: source name -> what its fetch
                      \* returned
    run_transformed,  \* WorldBankIngestion.run: the sources _transform_data
                      \* returned, in order
    read_dfs,         \* _read_input_csv: the keys of its inputs_df, in order
    rerr,             \* the exception that ended the run, "none" if none
    trace             \* the operations performed so far

\* State of one call of ApiIngestion._find_key_recursive
VARIABLES
    doc,              \* the argument data
    target_key,       \* the argument target_key
    found,            \* the value returned, <<>> before the return
    kpc               \* "idle", "called", "returned"

\* State of one run of the template script ScriptOne.run and of its database
VARIABLES
    run_tests,        \* the argument run_tests
    entity_data,      \* the rows read_file_as_df returned
    french_entities,  \* the rows transform_data returned
    tpl_staging,      \* staging schema: table name -> <<>> or <<rows>>
    tpl_prod,         \* production schema, likewise
    spc,              \* position of the run
    sops              \* the operations performed so far

\* the variables of fetch_paginated_data
fvars == <<remote, args, caller, heap, params, per_page, page, retries,
           total_pages, all_data, pc, err, getCalls, sleepCalls, lastReq,
           lastSleep, pageReqs, pageSleeps, pageFails, served, lastOutcome>>

\* the variables of _transform_data
tvars == <<batch, source_i, transformed_data, tpc>>

\* the variables of the database and of _load_tables_concurrent
lvars == <<staging, prod, inputs_df, max_workers, queue, load, ops, starts,
           faults, lpc, runs, prev>>

\* the variables of a run of the pipeline
rvars == <<files, rpc, file_i, fetched_data, run_transformed, read_dfs, rerr,
           trace>>

\* the variables of a call of _find_key_recursive
kvars == <<doc, target_key, found, kpc>>

\* the variables of a run of ScriptOne
svars == <<run_tests, entity_data, french_entities, tpl_staging, tpl_prod,
           spc, sops>>

vars == <<fvars, tvars, lvars, rvars, kvars, svars>>

\* what each operation leaves alone
nonFetch == <<tvars, lvars, rvars, kvars, svars>>
nonTransform == <<fvars, lvars, rvars, kvars, svars>>
nonLoad == <<fvars, tvars, rvars, kvars, svars>>
nonRun == <<fvars, tvars, lvars, kvars, svars>>
nonFind == <<fvars, tvars, lvars, rvars, svars>>
nonScript == <<fvars, tvars, lvars, rvars, kvars>>

\* no call of _find_key_recursive is under way
FindIdle ==
    /\ doc = JNull
    /\ target_key = ""
    /\ found = <<>>
    /\ kpc = "idle"

\* no run of ScriptOne is under way
ScriptIdle ==
    /\ run_tests = FALSE
    /\ entity_data = <<>>
    /\ french_entities = <<>>
    /\ tpl_staging = <<>>
    /\ tpl_prod = <<>>
    /\ spc = "idle"
    /\ sops = <<>>

\* no run of the pipeline is under way
RunIdle ==
    /\ files = <<>>
    /\ rpc = "idle"
    /\ file_i = 0
    /\ fetched_data = <<>>
    /\ run_transformed = <<>>
    /\ read_dfs = <<>>
    /\ rerr = "none"
    /\ trace = <<>>

\* no call of _load_tables_concurrent is under way, the database is empty
LoadIdle ==
    /\ staging = <<>>
    /\ prod = <<>>
    /\ inputs_df = <<>>
    /\ max_workers = 0
    /\ queue = <<>>
    /\ load = <<>>
    /\ ops = <<>>
    /\ starts = <<>>
    /\ faults = {}
    /\ lpc = "idle"
    /\ runs = 0
    /\ prev = <<>>

\* no call of _transform_data is under way
TransformIdle ==
    /\ batch = <<>>
    /\ source_i = 0
    /\ transformed_data = <<>>
    /\ tpc = "idle"

\* the loop is cut off past this page number in the bounded runs
PageCap == MaxRecords + 2

\* mappings a caller passes as params (besides None)
CallerMappings == {[format |-> "json"], [format |-> "json", per_page |-> 1]}

\* m[key] = value on a dict object
DictSet(m, key, value) ==
    [x \in DOMAIN m \cup {key} |-> IF x = key THEN value ELSE m[x]]

ArgSets ==
    [data_key : {NoKey, "data"},
     total_pages_param : {NoKey, "total_pages"},
     per_page : {PerPageArg},
     max_retries : {0, MaxRetries},
     delay : {DefaultDelay},
     params : {<<>>} \cup {<<m>> : m \in CallerMappings}]

FetchInit ==
    /\ remote \in Remotes
    /\ args \in ArgSets
    /\ heap = args.params
    /\ caller = Len(heap)
    /\ params = caller
    /\ per_page = args.per_page
    /\ page = 0
    /\ retries = 0
    /\ total_pages = NoTotal
    /\ all_data = <<>>
    /\ pc = "start"
    /\ err = "none"
    /\ getCalls = 0
    /\ sleepCalls = 0
    /\ lastReq = 0
    /\ lastSleep = -1
    /\ pageReqs = 0
    /\ pageSleeps = 0
    /\ pageFails = 0
    /\ served = [page |-> 0, reqs |-> 0, sleeps |-> 0, fails |-> 0]
    /\ lastOutcome = "none"

Init ==
    FetchInit /\ TransformIdle /\ LoadIdle /\ RunIdle /\ FindIdle /\ ScriptIdle

\* mutant: the local name stays bound to the caller's mapping
CopyParams_Alias(h, ref) == IF ref = 0 THEN Len(h) + 1 ELSE ref

\* params.copy() if params else {}: the reference the local name is bound to
CopyParams(h, ref) == Len(h) + 1

\* Lines 64-74: per_page override, local initialisation, copy of params
FetchStart ==
    /\ pc = "start"
    /\ LET given == params # 0 /\ DOMAIN heap[params] # {}
           pp == IF given /\ "per_page" \in DOMAIN heap[params]
                 THEN heap[params]["per_page"] ELSE per_page
           ref == CopyParams(heap, params)
           copy == IF given THEN heap[params] ELSE <<>>
           grown == IF ref > Len(heap) THEN Append(heap, copy) ELSE heap
       IN  /\ per_page' = pp
           /\ params' = ref
           /\ heap' = [grown EXCEPT ![ref] = DictSet(@, "per_page", pp)]
    /\ all_data' = <<>>
    /\ page' = 1
    /\ retries' = 0
    /\ total_pages' = NoTotal
    /\ pc' = "loop"
    /\ UNCHANGED <<remote, args, caller, err, getCalls, sleepCalls, lastReq,
                   lastSleep, pageReqs, pageSleeps, pageFails, served,
                   lastOutcome>>
    /\ UNCHANGED nonFetch

\* mutant: the retry check lets one more request through
RetriesExhausted_OffByOne(n, max_retries) == n > max_retries

\* mutant: the retry check applies only after a failed request
RetriesExhausted_AfterFailureOnly(n, max_retries) == n >= max_retries /\ n > 0

\* Line 79: retries >= max_retries
RetriesExhausted(n, max_retries) == n >= max_retries

\* Lines 79-84: the retry check at the top of the loop
MaxRetriesExceeded ==
    /\ pc = "loop"
    /\ RetriesExhausted(retries, args.max_retries)
    /\ pc' = "raised"
    /\ err' = "Max retries exceeded"
    /\ UNCHANGED <<remote, args, caller, heap, params, per_page, page,
                   retries, total_pages, all_data, getCalls, sleepCalls,
                   lastReq, lastSleep, pageReqs, pageSleeps, pageFails,
                   served, lastOutcome>>
    /\ UNCHANGED nonFetch

\* the page parameter of the request the loop is about to send
ReqPage(h, ref, pg) == DictSet(h[ref], "page", pg)["page"]

\* Lines 86-103: params[page_param] = page, then session.get(params=params)
SendRequest ==
    /\ pc = "loop"
    /\ ~RetriesExhausted(retries, args.max_retries)
    /\ page <= PageCap
    /\ heap' = [heap EXCEPT ![params] = DictSet(@, "page", page)]
    /\ lastReq' = ReqPage(heap, params, page)
    /\ getCalls' = getCalls + 1
    /\ pageReqs' = IF lastReq' = lastReq THEN pageReqs + 1 ELSE 1
    /\ UNCHANGED <<remote, args, caller, params, per_page>>
    /\ UNCHANGED nonFetch

\* counts of the page being requested, before this iteration's request
SleepsBefore == IF lastReq' = lastReq THEN pageSleeps ELSE 0
FailsBefore == IF lastReq' = lastReq THEN pageFails ELSE 0

\* mutant: the retry continues without sleeping
SleepAndRetry_NoSleep(seconds) ==
    /\ retries' = retries + 1
    /\ pageSleeps' = SleepsBefore
    /\ UNCHANGED <<page, total_pages, all_data, pc, err, lastSleep, sleepCalls>>

\* mutant: the retry moves on to the next page
SleepAndRetry_SkipsPage(seconds) ==
    /\ lastSleep' = seconds
    /\ sleepCalls' = sleepCalls + 1
    /\ pageSleeps' = SleepsBefore + 1
    /\ retries' = retries + 1
    /\ page' = page + 1
    /\ UNCHANGED <<total_pages, all_data, pc, err>>

\* mutant: the retry starts the accumulated records over
SleepAndRetry_DropsRecords(seconds) ==
    /\ lastSleep' = seconds
    /\ sleepCalls' = sleepCalls + 1
    /\ pageSleeps' = SleepsBefore + 1
    /\ retries' = retries + 1
    /\ all_data' = <<>>
    /\ UNCHANGED <<page, total_pages, pc, err>>

\* mutant: the retry does not count against the budget
SleepAndRetry_NotCounted(seconds) ==
    /\ lastSleep' = seconds
    /\ sleepCalls' = sleepCalls + 1
    /\ pageSleeps' = SleepsBefore + 1
    /\ UNCHANGED <<page, retries, total_pages, all_data, pc, err>>

\* time.sleep(seconds); retries += 1; continue
SleepAndRetry(seconds) ==
    /\ lastSleep' = seconds
    /\ sleepCalls' = sleepCalls + 1
    /\ pageSleeps' = SleepsBefore + 1
    /\ retries' = retries + 1
    /\ UNCHANGED <<page, total_pages, all_data, pc, err>>

\* mutant: an exception ends the loop and the records so far are returned
Raise_ReturnsPartial(e) ==
    /\ pc' = "returned"
    /\ err' = "none"
    /\ pageSleeps' = SleepsBefore
    /\ UNCHANGED <<page, retries, total_pages, all_data, sleepCalls, lastSleep>>

\* an exception leaves the loop and the call
Raise(e) ==
    /\ pc' = "raised"
    /\ err' = e
    /\ pageSleeps' = SleepsBefore
    /\ UNCHANGED <<page, retries, total_pages, all_data, sleepCalls, lastSleep>>

\* the body the endpoint answers the request just sent with
ReceivedBody == Body(remote, heap'[params]["page"], heap'[params]["per_page"])

\* what ProcessPage makes of the body just received
Processed ==
    ProcessPage(ReceivedBody, args.data_key, args.total_pages_param,
                per_page, page, total_pages, all_data)

\* mutant: advancing skips a page
ApplyPage_SkipsPage(r) ==
    /\ lastOutcome' = "ok"
    /\ all_data' = r.all_data
    /\ total_pages' = r.total_pages
    /\ page' = IF r.ctl = "next" THEN page + 2 ELSE page
    /\ retries' = IF r.ctl = "next" THEN 0 ELSE retries
    /\ pc' = CASE r.ctl = "next" -> "loop"
               [] r.ctl = "break" -> "returned"
               [] OTHER -> "raised"
    /\ err' = r.err
    /\ pageSleeps' = SleepsBefore
    /\ pageFails' = FailsBefore
    /\ served' = [page |-> lastReq', reqs |-> pageReqs',
                  sleeps |-> pageSleeps', fails |-> pageFails']
    /\ UNCHANGED <<sleepCalls, lastSleep>>

\* mutant: advancing to the next page keeps the retries made so far
ApplyPage_KeepsRetries(r) ==
    /\ lastOutcome' = "ok"
    /\ all_data' = r.all_data
    /\ total_pages' = r.total_pages
    /\ page' = IF r.ctl = "next" THEN page + 1 ELSE page
    /\ retries' = retries
    /\ pc' = CASE r.ctl = "next" -> "loop"
               [] r.ctl = "break" -> "returned"
               [] OTHER -> "raised"
    /\ err' = r.err
    /\ pageSleeps' = SleepsBefore
    /\ pageFails' = FailsBefore
    /\ served' = [page |-> lastReq', reqs |-> pageReqs',
                  sleeps |-> pageSleeps', fails |-> pageFails']
    /\ UNCHANGED <<sleepCalls, lastSleep>>

\* the assignments of a successful iteration, r being its ProcessPage result
ApplyPage(r) ==
    /\ lastOutcome' = "ok"
    /\ all_data' = r.all_data
    /\ total_pages' = r.total_pages
    /\ page' = IF r.ctl = "next" THEN page + 1 ELSE page
    /\ retries' = IF r.ctl = "next" THEN 0 ELSE retries
    /\ pc' = CASE r.ctl = "next" -> "loop"
               [] r.ctl = "break" -> "returned"
               [] OTHER -> "raised"
    /\ err' = r.err
    /\ pageSleeps' = SleepsBefore
    /\ pageFails' = FailsBefore
    /\ served' = [page |-> lastReq', reqs |-> pageReqs',
                  sleeps |-> pageSleeps', fails |-> pageFails']
    /\ UNCHANGED <<sleepCalls, lastSleep>>

\* mutant: the stop conditions are tested before the page is appended
PageReceived_StopBeforeExtend ==
    /\ SendRequest
    /\ ApplyPage(IF Processed.ctl = "break"
                 THEN [Processed EXCEPT !.all_data = all_data]
                 ELSE Processed)

\* mutant: an empty page does not stop while the declared total says more
PageReceived_EmptyPageContinues ==
    /\ SendRequest
    /\ ApplyPage(IF /\ Processed.ctl = "break"
                    /\ Processed.all_data = all_data
                    /\ Processed.total_pages # NoTotal
                    /\ page < Processed.total_pages
                 THEN [Processed EXCEPT !.ctl = "next"]
                 ELSE Processed)

\* mutant: a short page does not stop while the declared total says more
PageReceived_PartialPageContinues ==
    /\ SendRequest
    /\ ApplyPage(IF /\ Processed.ctl = "break"
                    /\ Processed.all_data # all_data
                    /\ Processed.total_pages # NoTotal
                    /\ page < Processed.total_pages
                 THEN [Processed EXCEPT !.ctl = "next"]
                 ELSE Processed)

\* Lines 104-208: the request succeeds and its body parses
PageReceived ==
    /\ SendRequest
    /\ \E r \in {Processed} : ApplyPage(r)

\* Retry-After headers of a 429 response: absent, seconds, an HTTP date
RetryAfterHeaders == {JNull, Str("1"), Str("Wed, 21 Oct 2015 07:28:00 GMT")}

\* HTTP error statuses raise_for_status raises HTTPError for
ErrorStatuses == {"400", "429", "500"}

\* float(e.response.headers.get("Retry-After", delay))
RetryAfter(header, delay) ==
    PyNumber(IF header.kind = "null" THEN Num(delay) ELSE header)

\* mutant: server errors are retried like rate limits
IsRateLimit_Or5xx(status) == status \in {"429", "500"}

\* Line 212: e.response.status_code == 429
IsRateLimit(status) == status = "429"

\* Lines 210-227: raise_for_status raises HTTPError
HTTPErrorHandler(status, header) ==
    /\ SendRequest
    /\ lastOutcome' = status
    /\ IF IsRateLimit(status)
       THEN /\ pageFails' = FailsBefore + 1
            /\ LET retry_after == RetryAfter(header, args.delay)
               IN  IF retry_after.ok THEN SleepAndRetry(retry_after.n)
                   ELSE Raise(retry_after.err)
       ELSE /\ pageFails' = FailsBefore
            /\ Raise("HTTPError")
    /\ UNCHANGED served

\* Lines 228-237: session.get raises ConnectionError or ReadTimeout
NetworkErrorHandler(kind) ==
    /\ SendRequest
    /\ lastOutcome' = kind
    /\ pageFails' = FailsBefore + 1
    /\ SleepAndRetry(args.delay)
    /\ UNCHANGED served

\* mutant: a body that does not parse is retried like a network error
JsonDecodeError_Retried ==
    /\ SendRequest
    /\ lastOutcome' = "badjson"
    /\ pageFails' = FailsBefore
    /\ SleepAndRetry(args.delay)
    /\ UNCHANGED served

\* Lines 112-124 and 238-240: response.json() raises, the error is re-raised
JsonDecodeError ==
    /\ SendRequest
    /\ lastOutcome' = "badjson"
    /\ pageFails' = FailsBefore
    /\ Raise("JSONDecodeError")
    /\ UNCHANGED served

Next ==
    \/ FetchStart
    \/ MaxRetriesExceeded
    \/ PageReceived
    \/ \E status \in ErrorStatuses, header \in RetryAfterHeaders :
          HTTPErrorHandler(status, header)
    \/ \E kind \in {"ConnectionError", "ReadTimeout"} : NetworkErrorHandler(kind)
    \/ JsonDecodeError

Spec == Init /\ [][Next]_vars

\* ------------------------------------------------------------------------
\* Properties of the retry loop
\* ------------------------------------------------------------------------
\* outcomes of a request that the loop answers by sleeping and retrying
TransientOutcomes == {"429", "ConnectionError", "ReadTimeout"}

C2_MaxRetriesExceeded ==
    /\ (pc = "loop" /\ pageFails >= args.max_retries /\ lastReq = page) =>
          (ENABLED MaxRetriesExceeded /\ ~ENABLED SendRequest)
    /\ err = "Max retries exceeded" =>
          /\ pc = "raised"
          /\ lastReq \in {0, page}
          /\ pageReqs = args.max_retries
          /\ pageSleeps = args.max_retries
          /\ pageFails = args.max_retries
          /\ ~ENABLED SendRequest

\* the budget ran out on a page after the first
C2_Witness ==
    /\ err = "Max retries exceeded"
    /\ args.max_retries > 0
    /\ lastReq = 2
    /\ pageReqs = args.max_retries

\* C3 as stated: an HTTP error other than 429 raises with exactly one
\* request made for that page and no sleep for it.
C3_Original ==
    lastOutcome \in {"400", "500"} =>
        /\ pc = "raised"
        /\ pageReqs = 1
        /\ pageSleeps = 0

\* C3 amended: an HTTP error other than 429 raises at once. Its request is
\* not retried: no sleep follows it, retries is not incremented for it and no
\* further request is sent; the page then had k+1 requests and k sleeps,
\* where k is the number of transient failures that preceded the error on
\* that page (one request and no sleep when there were none).
C3_HttpErrorImmediate ==
    lastOutcome \in {"400", "500"} =>
        /\ pc = "raised"
        /\ err = "HTTPError"
        /\ pageReqs = pageFails + 1
        /\ pageSleeps = pageFails
        /\ retries = pageFails
        /\ ~ENABLED SendRequest

\* a server error that follows a transient failure on the same page
C3_Witness ==
    /\ lastOutcome = "500"
    /\ err = "HTTPError"
    /\ pageFails = 1
    /\ pageReqs = 2

\* C4: a body that fails to parse as JSON is never retried: the parse error
\* is re-raised after that request, with no sleep and no retries increment
\* for it, and no further request is sent.
C4_JsonErrorNotRetried ==
    lastOutcome = "badjson" =>
        /\ pc = "raised"
        /\ err = "JSONDecodeError"
        /\ pageReqs = pageFails + 1
        /\ pageSleeps = pageFails
        /\ retries = pageFails
        /\ ~ENABLED SendRequest

\* an unparseable body as the first answer of the fetch
C4_Witness ==
    /\ lastOutcome = "badjson"
    /\ err = "JSONDecodeError"
    /\ getCalls = 1
    /\ sleepCalls = 0

\* ------------------------------------------------------------------------
\* Properties of the accumulated records and of the stop conditions
\* ------------------------------------------------------------------------
\* the body the endpoint serves for page p to this call
BodyOf(p) == Body(remote, p, per_page)

\* data[data_key] raises nothing on the body of page p
ExtractsWell(p) == ExtractError(BodyOf(p), args.data_key) = "none"

\* the record list the loop extracts from the body of page p
PageDataOf(p) == ExtractPageData(BodyOf(p), args.data_key)

RECURSIVE PagesConcat(_)
\* the record lists of pages 1..n, concatenated in page order
PagesConcat(n) ==
    IF n <= 0 THEN <<>> ELSE PagesConcat(n - 1) \o Items(PageDataOf(n))

RECURSIVE CleanFetch(_, _, _)
\* the run of the loop from page pg on in which every request succeeds
CleanFetch(pg, tot, acc) ==
    LET r == ProcessPage(BodyOf(pg), args.data_key, args.total_pages_param,
                         per_page, pg, tot, acc)
    IN  IF r.ctl = "next" /\ pg < PageCap
        THEN CleanFetch(pg + 1, r.total_pages, r.all_data)
        ELSE r

\* C5: idempotent pagination: whatever transient failures preceded each
\* page's success, a fetch that returns, returns the record sequence of the
\* run over the same page responses in which no request fails.
C5_IdempotentPagination ==
    pc = "returned" =>
        /\ CleanFetch(1, NoTotal, <<>>).ctl = "break"
        /\ all_data = CleanFetch(1, NoTotal, <<>>).all_data

\* a fetch of three pages returned after transient failures on two of them
C5_Witness ==
    /\ pc = "returned"
    /\ lastReq = 3
    /\ Len(all_data) = 5
    /\ sleepCalls >= 2
    /\ served.fails > 0

\* the last non-empty page among those received well
LastNonEmptyPage ==
    IF Truthy(PageDataOf(served.page)) THEN served.page ELSE served.page - 1

\* C6: the returned list is the concatenation, in increasing page order, of
\* the record lists of pages 1..n, n the last non-empty page received; every
\* such page's records appear exactly once, retried or not.
C6_ConcatenationInOrder ==
    pc = "returned" =>
        /\ all_data = PagesConcat(LastNonEmptyPage)
        /\ \A p \in 1..LastNonEmptyPage : Truthy(PageDataOf(p))

\* three pages of records returned in order after a retried page
C6_Witness ==
    /\ pc = "returned"
    /\ remote.shape = "worldbank"
    /\ all_data = <<Rec(1), Rec(2), Rec(3), Rec(4), Rec(5)>>
    /\ LastNonEmptyPage = 3
    /\ sleepCalls > 0

\* the last request was answered with a body whose record list is empty
LastPageEmpty ==
    /\ lastOutcome = "ok"
    /\ ExtractsWell(lastReq)
    /\ ~Truthy(PageDataOf(lastReq))

\* C7: an empty extracted page ends the fetch successfully, also when the
\* known total-page count is greater than the current page: nothing is
\* appended for it and no later page is requested.
C7_EmptyPageStops ==
    LastPageEmpty =>
        /\ pc = "returned"
        /\ err = "none"
        /\ page = lastReq
        /\ all_data = PagesConcat(lastReq - 1)
        /\ ~ENABLED SendRequest

\* an empty second page while three pages are declared
C7_Witness ==
    /\ LastPageEmpty
    /\ pc = "returned"
    /\ lastReq = 2
    /\ total_pages = 3
    /\ Len(all_data) = per_page

\* the call reads the total-page count the responses declare
ReadsDeclaredTotal ==
    \/ /\ remote.shape = "keyed"
       /\ args.data_key = "data"
       /\ args.total_pages_param = "total_pages"
    \/ /\ remote.shape = "worldbank"
       /\ args.data_key = NoKey

\* C8: when the responses declare N total pages, pages 1..N-1 are full and
\* page N is not empty, page N+1 is never requested and a fetch that returns
\* stopped right after page N: every request but N of them was followed by a
\* sleep (N requests and 0 sleeps without transient failures), and the
\* records of pages 1..N are returned.
C8_DeclaredTotalStops ==
    (/\ pc # "start"
     /\ ReadsDeclaredTotal
     /\ remote.count > (remote.total - 1) * per_page) =>
        /\ lastReq <= remote.total
        /\ pc = "returned" =>
              /\ lastReq = remote.total
              /\ served.page = remote.total
              /\ getCalls = remote.total + sleepCalls
              /\ Len(all_data) = Min(remote.count, remote.total * per_page)

\* sizes [2,2,1], per_page 2, total 3: 5 records, 3 requests, 0 sleeps
C8_Witness ==
    /\ pc = "returned"
    /\ remote = [shape |-> "keyed", count |-> 5, total |-> 3]
    /\ ReadsDeclaredTotal
    /\ per_page = 2
    /\ Len(all_data) = 5
    /\ getCalls = 3
    /\ sleepCalls = 0

\* the last request was answered with a non-empty page of fewer than
\* per_page records
LastPagePartial ==
    /\ lastOutcome = "ok"
    /\ ExtractsWell(lastReq)
    /\ Truthy(PageDataOf(lastReq))
    /\ PyLen(PageDataOf(lastReq)) < per_page

\* C9: when no response carries a total-page count, a non-empty page with
\* fewer than per_page records ends the fetch successfully: its records are
\* appended and no further page is requested.
C9_PartialPageStops ==
    (LastPagePartial /\ ~DeclaresTotal(remote.shape)) =>
        /\ pc = "returned"
        /\ err = "none"
        /\ page = lastReq
        /\ all_data = PagesConcat(lastReq)
        /\ ~ENABLED SendRequest

\* a short second page with no total known
C9_Witness ==
    /\ LastPagePartial
    /\ ~DeclaresTotal(remote.shape)
    /\ total_pages = NoTotal
    /\ pc = "returned"
    /\ lastReq = 2
    /\ Len(all_data) = 3

\* the last request was answered with a page of exactly per_page records
LastPageFull ==
    /\ lastOutcome = "ok"
    /\ ExtractsWell(lastReq)
    /\ Truthy(PageDataOf(lastReq))
    /\ PyLen(PageDataOf(lastReq)) = per_page

\* the three envelope shapes, read the way each is meant to be read, with no
\* total-page count in the response
EnvelopeWithoutTotal ==
    \/ remote.shape = "keyed_nototal" /\ args.data_key = "data"
    \/ remote.shape = "worldbank_nopages" /\ args.data_key = NoKey
    \/ remote.shape = "raw" /\ args.data_key = NoKey

\* C10: for every envelope shape (explicit data_key, metadata-then-data
\* envelope, raw list of records), after a non-empty page of exactly
\* per_page records whose response exposes no total-page count, page is
\* incremented, retries is 0 and the next page is requested.
C10_FullPageAdvances ==
    (LastPageFull /\ EnvelopeWithoutTotal) =>
        /\ pc = "loop"
        /\ page = lastReq + 1
        /\ retries = 0
        /\ ENABLED SendRequest

\* ------------------------------------------------------------------------
\* Properties of one iteration of the loop
\* ------------------------------------------------------------------------
\* this step sent a request that failed with a 429, a connection error or a
\* read timeout
TransientFailureStep ==
    /\ getCalls' = getCalls + 1
    /\ lastOutcome' \in TransientOutcomes

\* C11: a transient failure (429, connection error, read timeout) changes
\* only the retry counter: page, the accumulated records, total_pages and
\* per_page are left as they were, retries grows by one when the loop goes
\* on, and the request the loop sends next carries the page number of the
\* request that failed.
C11_TransientFrame ==
    [][TransientFailureStep =>
          /\ page' = page
          /\ all_data' = all_data
          /\ total_pages' = total_pages
          /\ per_page' = per_page
          /\ params' = params
          /\ retries' \in {retries, retries + 1}
          /\ pc' = "loop" =>
                /\ retries' = retries + 1
                /\ ReqPage(heap', params', page') = lastReq']_vars

\* a retry pending on page 2 with the first page's records accumulated
C11_Witness ==
    /\ lastOutcome \in TransientOutcomes
    /\ pc = "loop"
    /\ lastReq = 2
    /\ page = 2
    /\ retries = 1
    /\ Len(all_data) = 2

\* C12: the retry budget is per page: retries counts the transient failures
\* of the page being requested only and is 0 whenever the loop has advanced
\* to a page not yet requested, so "Max retries exceeded" is raised only
\* when one page failed max_retries times in a row; a fetch whose pages each
\* fail fewer times goes on, however many failures the fetch had in total.
C12_BudgetPerPage ==
    /\ pc = "loop" => retries = IF lastReq = page THEN pageFails ELSE 0
    /\ err = "Max retries exceeded" =>
          /\ pageFails = args.max_retries
          /\ retries = args.max_retries
    /\ (pc = "loop" /\ retries < args.max_retries /\ page <= PageCap) =>
          ENABLED SendRequest

\* three pages returned although the fetch had max_retries failures in all
C12_Witness ==
    /\ pc = "returned"
    /\ args.max_retries > 0
    /\ sleepCalls >= args.max_retries
    /\ lastReq = 3
    /\ served.fails < args.max_retries

\* C13: fetch_paginated_data never mutates the caller's params mapping:
\* at every point of the call, and so after it returned or raised, the
\* caller's mapping has the keys and values it was passed with (no page
\* or per_page entry added or changed); the loop writes into its own copy.
C13_CallerParamsUntouched ==
    /\ caller = 1 => heap[caller] = args.params[1]
    /\ pc # "start" => params # caller
    /\ Len(heap) >= Len(args.params)

\* a fetch of three pages with a retry returned, the caller having passed a
\* mapping without per_page; the copy holds page and per_page
C13_Witness ==
    /\ pc = "returned"
    /\ caller = 1
    /\ "per_page" \notin DOMAIN args.params[1]
    /\ lastReq = 3
    /\ sleepCalls > 0
    /\ heap[params]["page"] = 3
    /\ heap[params]["per_page"] = per_page

\* ------------------------------------------------------------------------
\* Properties of the extraction of the record list
\* ------------------------------------------------------------------------
\* the record list e is what the iteration that received the last body made
\* of it: appended at the end of all_data, or, when empty, the end of the fetch
LastExtracted(e) ==
    IF Truthy(e)
    THEN /\ Len(all_data) >= Len(Items(e))
         /\ SubSeq(all_data, Len(all_data) - Len(Items(e)) + 1, Len(all_data))
               = Items(e)
    ELSE pc = "returned" /\ all_data = PagesConcat(lastReq - 1)

\* the last request was answered with a body, read without a data_key
BodyReadPositionally == lastOutcome = "ok" /\ args.data_key = NoKey

\* C14 as stated: without data_key the records are the body's second
\* element exactly when the body is a two-element sequence whose second
\* element is a sequence; every other body is used whole.
C14_Original ==
    BodyReadPositionally =>
        LET data == BodyOf(lastReq)
        IN  LastExtracted(IF IsList(data) /\ PyLen(data) = 2 /\ IsList(data.val[2])
                          THEN data.val[2] ELSE data)

\* C14 amended: without data_key the records are the body's second element
\* exactly when the body is a sequence of two or more elements whose second
\* element is a sequence (a third and later element is ignored); every
\* other body is used whole as the record list.
C14_PositionalExtraction ==
    BodyReadPositionally =>
        LET data == BodyOf(lastReq)
        IN  LastExtracted(IF IsList(data) /\ PyLen(data) >= 2 /\ IsList(data.val[2])
                          THEN data.val[2] ELSE data)

\* a three-element body whose second element holds two records
C14_Witness ==
    /\ BodyReadPositionally
    /\ remote.shape = "worldbank_trailer"
    /\ PyLen(BodyOf(lastReq)) = 3
    /\ all_data = <<Rec(1), Rec(2)>>

\* the last request was answered with a body that data[data_key] fails on
KeyLookupFails ==
    /\ lastOutcome = "ok"
    /\ args.data_key # NoKey
    /\ ~ExtractsWell(lastReq)

\* C15: with a data_key the page's records are the body's value at that
\* key, also for a list-shaped value or body the positional rule would read
\* otherwise; when the lookup fails (key absent: KeyError; body not a
\* mapping: TypeError) the fetch raises that error at once: nothing is
\* appended, no sleep or retry is made for it and no further request is sent.
C15_DataKeyExtraction ==
    /\ (lastOutcome = "ok" /\ args.data_key # NoKey /\ ExtractsWell(lastReq)) =>
          /\ HasKey(BodyOf(lastReq), args.data_key)
          /\ LastExtracted(GetKey(BodyOf(lastReq), args.data_key))
    /\ KeyLookupFails =>
          /\ pc = "raised"
          /\ err \in {"KeyError", "TypeError"}
          /\ err = "KeyError" <=> IsDict(BodyOf(lastReq))
          /\ all_data = PagesConcat(lastReq - 1)
          /\ pageReqs = pageFails + 1
          /\ pageSleeps = pageFails
          /\ retries = pageFails
          /\ ~ENABLED SendRequest

\* the first body is a mapping without the key "data": the lookup fails
\* after one request and no sleep
C15_Witness ==
    /\ KeyLookupFails
    /\ remote.shape = "keyed_items"
    /\ err = "KeyError"
    /\ pc = "raised"
    /\ getCalls = 1
    /\ sleepCalls = 0

\* ------------------------------------------------------------------------
\* Properties of the discovery of the total-page count
\* ------------------------------------------------------------------------
\* the total-page count the endpoint's answer to page p hands this call:
\* the "pages" field of a metadata head (1 when the head has none), the
\* nested total_pages field when the call names it, NoTotal otherwise
ExposedTotal(p) ==
    CASE remote.shape = "keyed" /\ args.total_pages_param = "total_pages" ->
            remote.total
      [] /\ remote.shape = "keyed_latetotal"
         /\ args.total_pages_param = "total_pages"
         /\ p > 1 -> remote.total + p - 2
      [] remote.shape = "worldbank" -> remote.total
      [] remote.shape \in {"worldbank_nopages", "worldbank_trailer", "raw"} -> 1
      [] OTHER -> NoTotal

\* the pages received so far whose iteration got as far as stop condition 2
\* with a response that exposes a total
PagesExposingTotal ==
    {p \in 1..served.page :
        /\ ExtractsWell(p)
        /\ Truthy(PageDataOf(p))
        /\ ExposedTotal(p) # NoTotal}

\* the response to page 1 was processed and exposed no total-page count
FirstPageExposedNoTotal ==
    /\ served.page >= 1
    /\ ExtractsWell(1)
    /\ Truthy(PageDataOf(1))
    /\ ExposedTotal(1) = NoTotal

C17_SequentialRequests ==
    [][/\ getCalls' \in {getCalls, getCalls + 1}
       /\ getCalls' = getCalls => lastReq' = lastReq
       /\ getCalls' = getCalls + 1 =>
             /\ lastOutcome' # "none"
             /\ lastReq' = page
             /\ lastReq = 0 => lastReq' = 1
             /\ lastReq' \in {lastReq, lastReq + 1}
             /\ (lastReq > 0 /\ lastReq' = lastReq + 1) =>
                   /\ lastOutcome = "ok"
                   /\ served.page = lastReq
                   /\ Truthy(PageDataOf(lastReq))
                   /\ all_data = PagesConcat(lastReq)
                   /\ retries = 0]_vars

\* page 3 requested after pages 1 and 2 each needed a retry
C17_Witness ==
    /\ lastReq = 3
    /\ getCalls = 5
    /\ served.page = 2
    /\ Len(all_data) = 4
    /\ lastOutcome \in TransientOutcomes

\* ------------------------------------------------------------------------
\* Properties of the sleep before a retry
\* ------------------------------------------------------------------------
\* C18: the sleep before a retry lasts, for HTTP 429, the value of the
\* response's Retry-After header when the header is present and the
\* configured base delay otherwise; for a connection error or a read
\* timeout, always the configured base delay.
C18_SleepDuration ==
    [][/\ \A header \in RetryAfterHeaders :
             HTTPErrorHandler("429", header) =>
                /\ sleepCalls' = sleepCalls + 1
                /\ pc' = "loop"
                /\ header.kind = "null" => lastSleep' = args.delay
                /\ (header.kind = "str" /\ header.val \in DigitTexts) =>
                      lastSleep' = TextValue(header.val)
       /\ \A kind \in {"ConnectionError", "ReadTimeout"} :
             NetworkErrorHandler(kind) =>
                /\ sleepCalls' = sleepCalls + 1
                /\ pc' = "loop"
                /\ lastSleep' = args.delay]_vars

\* ------------------------------------------------------------------------
\* WorldBankIngestion._transform_data
\* ------------------------------------------------------------------------
\* longest record list of a source in the bounded runs
MaxRows == 3

\* the "indicator" field every record of a source carries
Indicator ==
    Dict(<<KV("id", Str("EG.ELC.FOSL.ZS")),
           KV("value", Str("Electricity production from fossil fuels"))>>)

\* one record of the World Bank API
WBRecord(code, name, date) ==
    Dict(<<KV("countryiso3code", code),
           KV("country", Dict(<<KV("id", Str("C")), KV("value", Str(name))>>)),
           KV("indicator", Indicator),
           KV("date", Str(date)),
           KV("value", Num(10))>>)

\* country code, country name and date of the records of the bounded runs
RecordFields ==
    {<<JNull, "A", "2020">>, <<Str(""), "A", "2020">>,
     <<Str("AAA"), "A", "2020">>, <<Str("AAA"), "A", "2021">>,
     <<Str("AAA"), "A2", "2021">>, <<Str("AAA"), "A", "n/a">>,
     <<Str("BBB"), "B", "2020">>, <<Str("BBB"), "B", "2021">>}

\* the items a fetched list holds: a scalar, a mapping without "value", a
\* mapping with "value" whose "country" is null and that has no country code,
\* records
RawItems ==
    {Str("message"),
     Dict(<<KV("countryiso3code", Str("AAA")), KV("date", Str("2020"))>>),
     Dict(<<KV("country", JNull), KV("date", Str("2020")), KV("value", Num(10))>>)}
    \cup {WBRecord(f[1], f[2], f[3]) : f \in RecordFields}

\* the record lists of at most n items
RecordLists(n) == UNION {[1..k -> RawItems] : k \in 0..n}

\* the record lists of the second source of a batch: a clean one, one without
\* valid rows, one with a duplicate pivot entry
OtherLists ==
    {<<WBRecord(Str("BBB"), "B", "2020")>>,
     <<Str("message"), WBRecord(JNull, "A", "2020")>>,
     <<WBRecord(Str("AAA"), "A", "2020"), WBRecord(Str("AAA"), "A", "2020")>>}

\* the batches of two sources, in both orders, the varied source holding at
\* most n items
Batches(n) ==
    {<<[name |-> "fossil_fuel_electricity", records |-> l],
       [name |-> "renewable_electricity", records |-> o]>> :
        l \in RecordLists(n), o \in OtherLists}
    \cup
    {<<[name |-> "renewable_electricity", records |-> o],
       [name |-> "fossil_fuel_electricity", records |-> l]>> :
        l \in RecordLists(n), o \in OtherLists}

\* Line 121: isinstance(record, dict) and "value" in record
KeepsItem(item) == IsDict(item) /\ HasKey(item, "value")

\* Lines 125-138: record.get("country", {}).get(...) and the same on
\* "indicator" raise AttributeError when the field is present and not a mapping
RecordError(record) ==
    IF \/ ~IsDict(DictGet(record, "country", Dict(<<>>)))
       \/ ~IsDict(DictGet(record, "indicator", Dict(<<>>)))
    THEN "AttributeError" ELSE "none"

\* Lines 123-143: the long-form row built from one record
LongRow(record) ==
    [code |-> DictGet(record, "countryiso3code", JNull),
     name |-> DictGet(DictGet(record, "country", Dict(<<>>)), "value", Str("")),
     iname |-> DictGet(DictGet(record, "indicator", Dict(<<>>)), "value", Str("")),
     icode |-> DictGet(DictGet(record, "indicator", Dict(<<>>)), "id", Str("")),
     year |-> DictGet(record, "date", Str("")),
     value |-> DictGet(record, "value", Str(""))]

\* Lines 119-143: records
ExtractRecords(records_list) ==
    LET kept == SelectSeq(records_list, KeepsItem)
    IN  [i \in 1..Len(kept) |-> LongRow(kept[i])]

\* texts pd.to_numeric parses in the bounded runs, with their numbers
YearTexts == {"2020", "2021"}
YearValue(s) == CASE s = "2020" -> 2020 [] s = "2021" -> 2021

\* pd.to_numeric(v, errors="coerce"): a number stays, a numeric text becomes
\* its number, anything else becomes NaN (JNull: a missing cell)
to_numeric(v) ==
    CASE v.kind = "num" -> v
      [] v.kind = "str" /\ v.val \in YearTexts -> Num(YearValue(v.val))
      [] OTHER -> JNull

\* Series.notna() on one cell
notna(v) == v.kind # "null"

\* the texts of the bounded runs in lexicographic order
TextOrder == <<"", "A", "A2", "AAA", "B", "BBB", "EG.ELC.FOSL.ZS",
              "Electricity production from fossil fuels">>
TextRank(s) == CHOOSE i \in 1..Len(TextOrder) : TextOrder[i] = s

\* row a sorts before or with row b under ["Country Code", "Year"]
RowLE(a, b) ==
    \/ TextRank(a.code.val) < TextRank(b.code.val)
    \/ a.code = b.code /\ a.year.val <= b.year.val

RECURSIVE sort_values(_)
\* Line 163: df.sort_values(["Country Code", "Year"])
sort_values(df) ==
    IF df = <<>> THEN <<>>
    ELSE LET front == sort_values(SubSeq(df, 1, Len(df) - 1))
             r == df[Len(df)]
             k == Cardinality({i \in 1..Len(front) : RowLE(front[i], r)})
         IN  SubSeq(front, 1, k) \o <<r>> \o SubSeq(front, k + 1, Len(front))

\* Line 159: df["Country Code"].notna() & (df["Country Code"] != "")
HasCountryCode(r) == notna(r.code) /\ r.code # Str("")

\* Line 160: df["Year"].notna()
HasYear(r) == notna(r.year)

\* Lines 153-163: the cleaned long-form frame
Clean(df) ==
    LET numeric == [i \in 1..Len(df) |->
                       [df[i] EXCEPT !.year = to_numeric(@),
                                     !.value = to_numeric(@)]]
    IN  sort_values(SelectSeq(SelectSeq(numeric, HasCountryCode), HasYear))

\* the pivot index of a long-form row
PivotIndex(r) == <<r.code, r.name, r.icode, r.iname>>

\* mutant: duplicate entries do not make the pivot fail
PivotFails_Never(df) == FALSE

\* df.pivot raises ValueError: two rows share the index and the column
PivotFails(df) ==
    \E i, j \in 1..Len(df) :
        /\ i < j
        /\ PivotIndex(df[i]) = PivotIndex(df[j])
        /\ df[i].year = df[j].year

\* index a sorts before index b (lexicographic, field by field)
IndexLess(a, b) ==
    \E n \in 1..4 :
        /\ \A m \in 1..(n - 1) : a[m] = b[m]
        /\ TextRank(a[n].val) < TextRank(b[n].val)

RECURSIVE SortedIndex(_)
\* the distinct index tuples in sorted order
SortedIndex(S) ==
    IF S = {} THEN <<>>
    ELSE LET least == CHOOSE a \in S : \A b \in S \ {a} : IndexLess(a, b)
         IN  <<least>> \o SortedIndex(S \ {least})

RECURSIVE SortedYears(_)
\* the distinct years in increasing order
SortedYears(S) ==
    IF S = {} THEN <<>>
    ELSE LET least == CHOOSE a \in S : \A b \in S : a <= b
         IN  <<least>> \o SortedYears(S \ {least})

\* Lines 171-181: df.pivot(index=[...], columns="Year", values="Value")
\* followed by reset_index: one row per distinct index tuple, one column per
\* distinct year, NaN where the tuple has no row for the year
pivot(df) ==
    LET years == {df[i].year.val : i \in 1..Len(df)}
        index == SortedIndex({PivotIndex(df[i]) : i \in 1..Len(df)})
        Cell(ix, y) ==
            IF \E i \in 1..Len(df) : PivotIndex(df[i]) = ix /\ df[i].year.val = y
            THEN df[CHOOSE i \in 1..Len(df) :
                        PivotIndex(df[i]) = ix /\ df[i].year.val = y].value
            ELSE JNull
    IN  [columns |-> SortedYears(years),
         rows |-> [n \in 1..Len(index) |->
                     [code |-> index[n][1], name |-> index[n][2],
                      icode |-> index[n][3], iname |-> index[n][4],
                      cells |-> [y \in years |-> Cell(index[n], y)]]]]

\* the error building the long-form rows of a fetched list raises, "none"
\* when it raises nothing
RowsError(records_list) ==
    IF \E i \in 1..Len(records_list) :
          KeepsItem(records_list[i]) /\ RecordError(records_list[i]) # "none"
    THEN "AttributeError" ELSE "none"

\* Lines 114-190: one iteration of the loop over data.items(): the source is
\* skipped when it has no record, no row after cleaning or a failing pivot,
\* and stored under its name otherwise; an error building the rows is not
\* caught and leaves the call
TransformSource ==
    /\ tpc = "loop"
    /\ source_i <= Len(batch)
    /\ IF RowsError(batch[source_i].records) # "none"
       THEN /\ tpc' = "raised"
            /\ UNCHANGED <<transformed_data, source_i>>
       ELSE /\ LET source == batch[source_i]
                   records == ExtractRecords(source.records)
                   df == Clean(records)
               IN  transformed_data' =
                      IF records = <<>> \/ df = <<>> \/ PivotFails(df)
                      THEN transformed_data
                      ELSE Append(transformed_data,
                                  [name |-> source.name, table |-> pivot(df)])
            /\ source_i' = source_i + 1
            /\ UNCHANGED tpc
    /\ UNCHANGED batch
    /\ UNCHANGED nonTransform

\* Line 192: return transformed_data
TransformReturn ==
    /\ tpc = "loop"
    /\ source_i > Len(batch)
    /\ tpc' = "returned"
    /\ UNCHANGED <<batch, source_i, transformed_data>>
    /\ UNCHANGED nonTransform

\* no fetch is under way while _transform_data runs
FetchIdle ==
    /\ FetchInit
    /\ remote = [shape |-> "raw", count |-> 0, total |-> 1]
    /\ args = [data_key |-> NoKey, total_pages_param |-> NoKey,
               per_page |-> PerPageArg, max_retries |-> MaxRetries,
               delay |-> DefaultDelay, params |-> <<>>]

TransformInit ==
    /\ FetchIdle
    /\ LoadIdle
    /\ RunIdle
    /\ FindIdle
    /\ ScriptIdle
    /\ batch \in Batches(MaxRows)
    /\ source_i = 1
    /\ transformed_data = <<>>
    /\ tpc = "loop"

TransformNext == TransformSource \/ TransformReturn

TransformSpec == TransformInit /\ [][TransformNext]_vars

\* ------------------------------------------------------------------------
\* Properties of _transform_data
\* ------------------------------------------------------------------------
\* entity code, entity name and period of a fetched item
EntityOf(item) == DictGet(item, "countryiso3code", JNull)
EntityNameOf(item) == DictGet(DictGet(item, "country", Dict(<<>>)), "value", Str(""))
PeriodOf(item) == DictGet(item, "date", Str(""))

\* the item is a record with a "value" field, a non-empty entity code and a
\* numeric period
ValidItem(item) ==
    /\ IsDict(item)
    /\ HasKey(item, "value")
    /\ EntityOf(item).kind = "str"
    /\ EntityOf(item).val # ""
    /\ PeriodOf(item).kind = "str"
    /\ PeriodOf(item).val \in YearTexts

\* the valid items of a fetched list
ValidItems(records_list) == SelectSeq(records_list, ValidItem)

\* two valid items share the entity code and the period
DuplicateEntityPeriod(records_list) ==
    LET v == ValidItems(records_list)
    IN  \E i, j \in 1..Len(v) :
           /\ i < j
           /\ EntityOf(v[i]) = EntityOf(v[j])
           /\ PeriodOf(v[i]) = PeriodOf(v[j])

\* the fetched list of the source stored under a name
RecordsOf(name) ==
    batch[CHOOSE i \in 1..Len(batch) : batch[i].name = name].records

\* C19: pivot uniqueness: for a source whose records have no duplicate
\* (entity, period) pair, the output table has exactly one row per distinct
\* entity code, so Country Code is unique within the table.
C19_PivotUniqueness ==
    \A n \in 1..Len(transformed_data) :
        LET rows == transformed_data[n].table.rows
            v == ValidItems(RecordsOf(transformed_data[n].name))
        IN  ~DuplicateEntityPeriod(RecordsOf(transformed_data[n].name)) =>
               /\ \A a, b \in 1..Len(rows) : a # b => rows[a].code # rows[b].code
               /\ Len(rows) = Cardinality({EntityOf(v[i]) : i \in 1..Len(v)})

\* two valid items share entity code, entity name and period (the indicator
\* being the same for all records of a source): the pivot has two values for
\* one cell
DuplicatePivotEntry(records_list) ==
    LET v == ValidItems(records_list)
    IN  \E i, j \in 1..Len(v) :
           /\ i < j
           /\ EntityOf(v[i]) = EntityOf(v[j])
           /\ EntityNameOf(v[i]) = EntityNameOf(v[j])
           /\ PeriodOf(v[i]) = PeriodOf(v[j])

\* the source has no valid row after cleaning, or its pivot fails
ToBeSkipped(records_list) ==
    ValidItems(records_list) = <<>> \/ DuplicatePivotEntry(records_list)

\* the source name is a key of transformed_data
InOutput(name) ==
    \E n \in 1..Len(transformed_data) : transformed_data[n].name = name

\* C20: a source with no valid rows after cleaning, or whose pivot fails on
\* a duplicate entry, is omitted from the output mapping, the call going on
\* to the next source; every other source of the batch gone through is
\* transformed and present in the output, with a table of at least one row.
\* Neither way of skipping raises: the call raises only while building the
\* rows of a source that holds a "value" record whose "country" is no mapping.
C20_SkippedSourcesOmitted ==
    /\ \A i \in 1..Len(batch) :
          i < source_i =>
             (InOutput(batch[i].name) <=> ~ToBeSkipped(batch[i].records))
    /\ \A n \in 1..Len(transformed_data) :
          Len(transformed_data[n].table.rows) > 0
    /\ tpc = "returned" => source_i = Len(batch) + 1
    /\ tpc = "raised" =>
          \E i \in 1..Len(batch[source_i].records) :
             LET item == batch[source_i].records[i]
             IN  /\ IsDict(item)
                 /\ HasKey(item, "value")
                 /\ ~IsDict(DictGet(item, "country", Dict(<<>>)))

\* the first source's pivot failed on a duplicate entry and the second
\* source is the only one in the returned mapping
C20_Witness ==
    /\ tpc = "returned"
    /\ Len(batch) = 2
    /\ DuplicatePivotEntry(batch[1].records)
    /\ Len(transformed_data) = 1
    /\ transformed_data[1].name = batch[2].name

\* the valid items of a source that a row of its table stands for
ItemsOfRow(name, row) ==
    {i \in 1..Len(RecordsOf(name)) :
        /\ ValidItem(RecordsOf(name)[i])
        /\ EntityOf(RecordsOf(name)[i]) = row.code
        /\ EntityNameOf(RecordsOf(name)[i]) = row.name}

\* every row of every table stands for valid items, and each of its
\* non-missing cells for one of them with that period
RowsFromValidItems ==
    \A n \in 1..Len(transformed_data) :
        LET name == transformed_data[n].name
            rows == transformed_data[n].table.rows
        IN  \A a \in 1..Len(rows) :
               /\ ItemsOfRow(name, rows[a]) # {}
               /\ \A y \in DOMAIN rows[a].cells :
                     notna(rows[a].cells[y]) =>
                        \E i \in ItemsOfRow(name, rows[a]) :
                           YearValue(PeriodOf(RecordsOf(name)[i]).val) = y

\* C21: every row of a table produced by _transform_data derives only from
\* items that are records with a "value" field, a non-missing, non-empty
\* entity code and a numeric period; the items failing any of these are
\* discarded silently: the call never raises.
C21_OnlyValidItemsNeverRaise ==
    /\ RowsFromValidItems
    /\ tpc # "raised"


\* ------------------------------------------------------------------------
\* Loading the CSV tables: Utils.load_data, Utils.move_table_from_staging and
\* DBLoader._load_tables_concurrent
\* ------------------------------------------------------------------------

\* number of tables handed to _load_tables_concurrent
MaxTables == 2

\* number of calls of _load_tables_concurrent in one behaviour (a re-run
\* after a completed or an interrupted call)
MaxRuns == 2

\* the configured tables, in the order of DATA_SOURCES["world_bank"]
TableOrder ==
    <<"fossil_fuel_electricity", "renewable_electricity",
      "nuclear_electricity">>

Tables == {TableOrder[i] : i \in 1..Min(MaxTables, Len(TableOrder))}

\* the dataframe read from the CSV of table t
CsvFrame(t) ==
    [columns |-> <<"Country Name", "Country Code", "2020">>,
     rows |-> <<<<t, "AAA", "1">>, <<t, "BBB", "2">>>>]

\* what an earlier load of table t left in production
OldFrame(t) ==
    [columns |-> <<"Country Name", "Country Code", "2019">>,
     rows |-> <<<<t, "AAA", "0">>>>]

\* the loads that hold a worker thread
Running == {t \in DOMAIN load : load[t] \in {"write", "drop", "rename"}}

\* the loads that have ended, by returning their message
Finished == {t \in DOMAIN load : load[t] \in {"ok", "failed"}}

\* _load_tables_concurrent is called with the dataframes of some tables, on
\* a database in which earlier loads may have left production tables
LoadInit ==
    /\ FetchIdle
    /\ TransformIdle
    /\ RunIdle
    /\ FindIdle
    /\ ScriptIdle
    /\ staging = [t \in Tables |-> <<>>]
    /\ prod \in {[t \in Tables |-> IF t \in S THEN <<OldFrame(t)>> ELSE <<>>]
                    : S \in SUBSET Tables}
    /\ \E S \in SUBSET Tables \ {{}} : inputs_df = [t \in S |-> CsvFrame(t)]
    /\ max_workers \in {1, 2}
    /\ queue = <<>>
    /\ load = [t \in DOMAIN inputs_df |-> "new"]
    /\ ops = [t \in DOMAIN inputs_df |-> <<>>]
    /\ starts = [t \in DOMAIN inputs_df |-> 0]
    /\ faults = {}
    /\ lpc = "submit"
    /\ runs = 1
    /\ prev = [t \in DOMAIN inputs_df |-> "none"]

\* the process that called _load_tables_concurrent is running
Alive == lpc \in {"submit", "wait"}

\* the next item of inputs_df.items() that the comprehension submits
NextSubmitted ==
    LET left == {i \in 1..Len(TableOrder) :
                    /\ TableOrder[i] \in DOMAIN load
                    /\ load[TableOrder[i]] = "new"}
    IN  TableOrder[CHOOSE i \in left : \A j \in left : i <= j]

\* executor.submit(self._load_table_data, table_name, df), once per item
Submit ==
    /\ lpc = "submit"
    /\ \E t \in DOMAIN load : load[t] = "new"
    /\ load' = [load EXCEPT ![NextSubmitted] = "queued"]
    /\ queue' = Append(queue, NextSubmitted)
    /\ lpc' = IF \A t \in DOMAIN load \ {NextSubmitted} : load[t] # "new"
              THEN "wait" ELSE "submit"
    /\ UNCHANGED <<staging, prod, inputs_df, max_workers, ops, starts,
                   faults, runs, prev>>
    /\ UNCHANGED nonLoad

\* a pool that starts a queued load whatever the number of loads under way
StartLoad_Unbounded ==
    /\ Alive
    /\ queue # <<>>
    /\ load' = [load EXCEPT ![Head(queue)] = "write"]
    /\ starts' = [starts EXCEPT ![Head(queue)] = @ + 1]
    /\ queue' = Tail(queue)
    /\ UNCHANGED <<staging, prod, inputs_df, max_workers, ops, faults, lpc,
                   runs, prev>>
    /\ UNCHANGED nonLoad

\* a free worker of the pool takes the oldest queued load
StartLoad ==
    /\ Alive
    /\ queue # <<>>
    /\ Cardinality(Running) < max_workers
    /\ load' = [load EXCEPT ![Head(queue)] = "write"]
    /\ starts' = [starts EXCEPT ![Head(queue)] = @ + 1]
    /\ queue' = Tail(queue)
    /\ UNCHANGED <<staging, prod, inputs_df, max_workers, ops, faults, lpc,
                   runs, prev>>
    /\ UNCHANGED nonLoad

\* a staging write that appends to the table already there
to_sql_KeepsOldRows(schema, t, df) ==
    [schema EXCEPT ![t] = IF @ = <<>> THEN <<df>>
                          ELSE <<[columns |-> df.columns,
                                  rows |-> @[1].rows \o df.rows]>>]

\* df.to_sql(name=table_name, con=self.sql_staging, if_exists="replace")
to_sql(schema, t, df) == [schema EXCEPT ![t] = <<df>>]

\* load_data, first step: the staging write
StagingWrite(t) ==
    /\ Alive
    /\ load[t] = "write"
    /\ staging' = to_sql(staging, t, inputs_df[t])
    /\ load' = [load EXCEPT ![t] = "drop"]
    /\ ops' = [ops EXCEPT ![t] = Append(@, "write")]
    /\ UNCHANGED <<prod, inputs_df, max_workers, queue, starts, faults, lpc,
                   runs, prev>>
    /\ UNCHANGED nonLoad

\* a production drop without IF EXISTS: it raises when production has no
\* table of that name
DropProduction_NotIfExists(t) ==
    /\ Alive
    /\ load[t] = "drop"
    /\ IF prod[t] = <<>>
       THEN /\ load' = [load EXCEPT ![t] = "failed"]
            /\ UNCHANGED <<prod, ops>>
       ELSE /\ prod' = [prod EXCEPT ![t] = <<>>]
            /\ load' = [load EXCEPT ![t] = "rename"]
            /\ ops' = [ops EXCEPT ![t] = Append(@, "drop")]
    /\ UNCHANGED <<staging, inputs_df, max_workers, queue, starts, faults,
                   lpc, runs, prev>>
    /\ UNCHANGED nonLoad

\* a production drop that leaves the table in place
DropProduction_KeepsTable(t) ==
    /\ Alive
    /\ load[t] = "drop"
    /\ load' = [load EXCEPT ![t] = "rename"]
    /\ ops' = [ops EXCEPT ![t] = Append(@, "drop")]
    /\ UNCHANGED <<staging, prod, inputs_df, max_workers, queue, starts,
                   faults, lpc, runs, prev>>
    /\ UNCHANGED nonLoad

\* a promotion in one statement: the staging table takes the place of the
\* production table at once
DropProduction_AtomicSwap(t) ==
    /\ Alive
    /\ load[t] = "drop"
    /\ prod' = [prod EXCEPT ![t] = staging[t]]
    /\ load' = [load EXCEPT ![t] = "rename"]
    /\ ops' = [ops EXCEPT ![t] = Append(@, "drop")]
    /\ UNCHANGED <<staging, inputs_df, max_workers, queue, starts, faults,
                   lpc, runs, prev>>
    /\ UNCHANGED nonLoad

\* move_table_from_staging, first statement: DROP TABLE IF EXISTS prod.t
DropProduction(t) ==
    /\ Alive
    /\ load[t] = "drop"
    /\ prod' = [prod EXCEPT ![t] = <<>>]
    /\ load' = [load EXCEPT ![t] = "rename"]
    /\ ops' = [ops EXCEPT ![t] = Append(@, "drop")]
    /\ UNCHANGED <<staging, inputs_df, max_workers, queue, starts, faults,
                   lpc, runs, prev>>
    /\ UNCHANGED nonLoad

\* a rename through a name shared by all loads: the staging tables of the
\* other loads under way are taken along and lost
RenameToProduction_SharedName(t) ==
    /\ Alive
    /\ load[t] = "rename"
    /\ prod' = [prod EXCEPT ![t] = staging[t]]
    /\ staging' = [u \in DOMAIN staging |-> <<>>]
    /\ load' = [load EXCEPT ![t] = "ok"]
    /\ ops' = [ops EXCEPT ![t] = Append(@, "rename")]
    /\ UNCHANGED <<inputs_df, max_workers, queue, starts, faults, lpc, runs,
                   prev>>
    /\ UNCHANGED nonLoad

\* RENAME TABLE fails when the staging table is missing or the production
\* table exists
RenameFails(t) == staging[t] = <<>> \/ prod[t] # <<>>

\* move_table_from_staging, second statement: RENAME TABLE staging.t TO
\* prod.t, then the commit and the success message of _load_table_data
RenameToProduction(t) ==
    /\ Alive
    /\ load[t] = "rename"
    /\ IF RenameFails(t)
       THEN /\ load' = [load EXCEPT ![t] = "failed"]
            /\ UNCHANGED <<staging, prod, ops, faults>>
       ELSE /\ prod' = [prod EXCEPT ![t] = staging[t]]
            /\ staging' = [staging EXCEPT ![t] = <<>>]
            /\ load' = [load EXCEPT ![t] = "ok"]
            /\ ops' = [ops EXCEPT ![t] = Append(@, "rename")]
            /\ UNCHANGED faults
    /\ UNCHANGED <<inputs_df, max_workers, queue, starts, lpc, runs, prev>>
    /\ UNCHANGED nonLoad

\* a failure that ends every load not yet finished
StatementFails_AbortsPool(t) ==
    /\ Alive
    /\ load[t] \in {"write", "drop", "rename"}
    /\ load' = [u \in DOMAIN load |->
                   IF load[u] \in {"new", "ok"} THEN load[u] ELSE "failed"]
    /\ queue' = <<>>
    /\ faults' = faults \cup {t}
    /\ UNCHANGED <<staging, prod, inputs_df, max_workers, ops, starts, lpc,
                   runs, prev>>
    /\ UNCHANGED nonLoad

\* the statement a load is about to execute raises (connection lost, SQL
\* error): _load_table_data catches it and returns the failure message
StatementFails(t) ==
    /\ Alive
    /\ load[t] \in {"write", "drop", "rename"}
    /\ load' = [load EXCEPT ![t] = "failed"]
    /\ faults' = faults \cup {t}
    /\ UNCHANGED <<staging, prod, inputs_df, max_workers, queue, ops, starts,
                   lpc, runs, prev>>
    /\ UNCHANGED nonLoad

\* the with block of the executor ends and as_completed is exhausted: every
\* submitted load has returned
LoadReturn ==
    /\ lpc = "wait"
    /\ Finished = DOMAIN load
    /\ lpc' = "returned"
    /\ UNCHANGED <<staging, prod, inputs_df, max_workers, queue, load, ops,
                   starts, faults, runs, prev>>
    /\ UNCHANGED nonLoad

\* the process is killed: the loads under way stop where they are
Interrupt ==
    /\ Alive
    /\ lpc' = "crashed"
    /\ UNCHANGED <<staging, prod, inputs_df, max_workers, queue, load, ops,
                   starts, faults, runs, prev>>
    /\ UNCHANGED nonLoad

\* _load_tables_concurrent is called again with the same dataframes
Rerun ==
    /\ lpc \in {"returned", "crashed"}
    /\ runs < MaxRuns
    /\ runs' = runs + 1
    /\ lpc' = "submit"
    /\ queue' = <<>>
    /\ load' = [t \in DOMAIN load |-> "new"]
    /\ ops' = [t \in DOMAIN load |-> <<>>]
    /\ starts' = [t \in DOMAIN load |-> 0]
    /\ faults' = {}
    /\ prev' = load
    /\ UNCHANGED <<staging, prod, inputs_df, max_workers>>
    /\ UNCHANGED nonLoad

LoadNext ==
    \/ Submit
    \/ StartLoad
    \/ \E t \in DOMAIN load : StagingWrite(t)
    \/ \E t \in DOMAIN load : DropProduction(t)
    \/ \E t \in DOMAIN load : RenameToProduction(t)
    \/ \E t \in DOMAIN load : StatementFails(t)
    \/ LoadReturn
    \/ Interrupt
    \/ Rerun

LoadSpec == LoadInit /\ [][LoadNext]_vars

\* the statements of one load_data call, in order
LoadSteps == <<"write", "drop", "rename">>

\* C22: load_data executes the staging write, then the drop of the
\* production table, then the rename of the staging table into production;
\* once it has completed without error the production table holds exactly
\* the given dataframe (its columns and its rows) and staging holds no table
\* of that name.
C22_LoadDataOrderAndResult ==
    \A t \in DOMAIN load :
        /\ Len(ops[t]) <= Len(LoadSteps)
        /\ ops[t] = SubSeq(LoadSteps, 1, Len(ops[t]))
        /\ load[t] = "ok" =>
               /\ ops[t] = LoadSteps
               /\ prod[t] = <<inputs_df[t]>>
               /\ Len(prod[t][1].rows) = Len(inputs_df[t].rows)
               /\ prod[t][1].columns = inputs_df[t].columns
               /\ staging[t] = <<>>

C22_Witness ==
    \E t \in DOMAIN load :
        /\ load[t] = "ok"
        /\ ops[t] = LoadSteps
        /\ prod[t] = <<CsvFrame(t)>>
        /\ staging[t] = <<>>

\* table t exists in the staging schema and in the production schema
InBoth(t) == staging[t] # <<>> /\ prod[t] # <<>>

\* C23 as stated: at every observation point a table name exists in at most
\* one of the staging schema and the production schema.
C23_Original == \A t \in Tables : ~InBoth(t)

\* C23, amended: a table name comes to exist in both schemas only by the
\* staging write of a load of that name while production already holds the
\* table, and stays in both until a production drop of that name; once the
\* drop has been executed, and after a load that completed, the name exists
\* in at most one schema.
C23_InBothOnlyBetweenWriteAndDrop ==
    /\ [](\A t \in DOMAIN load :
              load[t] \in {"rename", "ok"} => ~InBoth(t))
    /\ [][\A t \in Tables :
              /\ (InBoth(t)' /\ ~InBoth(t)) =>
                     /\ t \in DOMAIN load
                     /\ load[t] = "write"
                     /\ load'[t] = "drop"
                     /\ prod[t] # <<>>
              /\ (InBoth(t) /\ ~InBoth(t)') =>
                     /\ t \in DOMAIN load
                     /\ load[t] = "drop"
                     /\ load'[t] = "rename"]_vars

C23_Witness ==
    \E t \in DOMAIN load :
        /\ load[t] = "drop"
        /\ InBoth(t)
        /\ prod[t] = <<OldFrame(t)>>
        /\ staging[t] = <<CsvFrame(t)>>

\* the preceding call was interrupted while the load of t had not completed:
\* before the staging write ("queued", "write"), after the staging write
\* ("drop") or after the production drop ("rename")
InterruptedAt(t) ==
    IF prev[t] \in {"new", "queued", "write", "drop", "rename"}
    THEN prev[t] ELSE "none"

\* C24: re-running load_data for a table with the same rows, from the state
\* an interrupted load of that table left (before the staging write, after
\* it, or after the production drop), fails only by an error from outside
\* (no statement fails because of the state found), and when it has
\* completed production holds exactly those rows and staging has no table of
\* that name.
C24_RecoveryByRerun ==
    \A t \in DOMAIN load :
        InterruptedAt(t) # "none" =>
            /\ load[t] = "rename" => ~RenameFails(t)
            /\ load[t] = "failed" => t \in faults
            /\ load[t] = "ok" =>
                   /\ prod[t] = <<inputs_df[t]>>
                   /\ staging[t] = <<>>

C24_Witness ==
    /\ lpc = "returned"
    /\ \E t, u \in DOMAIN load :
           /\ InterruptedAt(t) = "drop"
           /\ InterruptedAt(u) = "rename"
           /\ load[t] = "ok"
           /\ load[u] = "ok"
           /\ prod[t] = <<CsvFrame(t)>>
           /\ prod[u] = <<CsvFrame(u)>>
           /\ staging = [x \in Tables |-> <<>>]

\* C25: _load_tables_concurrent never has more than max_workers loads under
\* way at once, starts the load of no table twice, and has returned only
\* when the load of every table of inputs_df was started once and has
\* finished.
C25_BoundedPoolEveryTableOnce ==
    /\ Cardinality(Running) <= max_workers
    /\ \A t \in DOMAIN load : starts[t] <= 1
    /\ lpc = "returned" =>
           /\ DOMAIN load = DOMAIN inputs_df
           /\ \A t \in DOMAIN inputs_df :
                  starts[t] = 1 /\ load[t] \in {"ok", "failed"}

C25_Witness ==
    /\ lpc = "returned"
    /\ max_workers = 1
    /\ Cardinality(DOMAIN inputs_df) = 2
    /\ \A t \in DOMAIN inputs_df : starts[t] = 1 /\ load[t] = "ok"

\* C26: when the load of one table fails, the load of every other table of
\* inputs_df still completes and is promoted, whatever the interleaving, and
\* _load_tables_concurrent returns normally: at its return every table that
\* met no error of its own is in production with its rows and absent from
\* staging, and only the tables that met an error have failed.
C26_FailureIsolated ==
    /\ \A t \in DOMAIN load : load[t] = "failed" => t \in faults
    /\ lpc = "returned" =>
           \A t \in DOMAIN inputs_df :
               IF t \in faults
               THEN load[t] = "failed"
               ELSE /\ load[t] = "ok"
                    /\ prod[t] = <<inputs_df[t]>>
                    /\ staging[t] = <<>>

C26_Witness ==
    /\ lpc = "returned"
    /\ \E t, u \in DOMAIN inputs_df :
           /\ t \in faults
           /\ load[t] = "failed"
           /\ u \notin faults
           /\ load[u] = "ok"
           /\ prod[u] = <<CsvFrame(u)>>

\* ------------------------------------------------------------------------
\* A run of the pipeline: PipelineRunner.run, WorldBankIngestion.run,
\* DBLoader.run and DBLoader._read_input_csv
\* ------------------------------------------------------------------------

\* the configured sources, in the order of DATA_SOURCES["world_bank"]; the
\* filename of each source is its name
SourceNames == SubSeq(TableOrder, 1, Min(MaxTables, Len(TableOrder)))

\* what a fetch can deliver: records that give rows, records that give no
\* row, a record the transform raises on, or an exception
FetchResults == {"rows", "norows", "malformed", "error"}

\* the run starts in PipelineRunner.run (at the cleanup of the ingestion) or
\* in DBLoader.run alone, with any CSV files in the data directory
RunInit ==
    /\ FetchIdle
    /\ TransformIdle
    /\ LoadIdle
    /\ FindIdle
    /\ ScriptIdle
    /\ files \in [Tables -> {"none", "csv", "unreadable"}]
    /\ rpc \in {"cleanup", "sql"}
    /\ file_i = 1
    /\ fetched_data = <<>>
    /\ run_transformed = <<>>
    /\ read_dfs = <<>>
    /\ rerr = "none"
    /\ trace = <<>>

\* an operation on a source or file, for the trace
Op(op, name) == [op |-> op, name |-> name]

\* the position after the item file_i of a loop over n items: the next item,
\* or the statement after the loop
AfterItem(n, after) ==
    IF file_i < n
    THEN rpc' = rpc /\ file_i' = file_i + 1
    ELSE rpc' = after /\ file_i' = 1

\* a cleanup whose try encloses the loop: the first os.remove that raises
\* ends the cleanup and the later files are not visited
CleanupFile_StopsAtFailure ==
    /\ rpc = "cleanup"
    /\ LET name == SourceNames[file_i]
       IN  IF files[name] = "none"
           THEN /\ UNCHANGED <<files, trace>>
                /\ AfterItem(Len(SourceNames), "fetch")
           ELSE \E removed \in BOOLEAN :
                    /\ files' = IF removed
                                THEN [files EXCEPT ![name] = "none"]
                                ELSE files
                    /\ trace' = Append(trace,
                                       Op(IF removed THEN "remove"
                                          ELSE "remove_failed", name))
                    /\ IF removed
                       THEN AfterItem(Len(SourceNames), "fetch")
                       ELSE rpc' = "fetch" /\ file_i' = 1
    /\ UNCHANGED <<fetched_data, run_transformed, read_dfs, rerr>>
    /\ UNCHANGED nonRun

\* cleanup_existing_files, one pass of its loop: an existing file is
\* removed, or os.remove raises and the file stays (a warning is logged)
CleanupFile ==
    /\ rpc = "cleanup"
    /\ LET name == SourceNames[file_i]
       IN  IF files[name] = "none"
           THEN UNCHANGED <<files, trace>>
           ELSE \E removed \in BOOLEAN :
                    /\ files' = IF removed
                                THEN [files EXCEPT ![name] = "none"]
                                ELSE files
                    /\ trace' = Append(trace,
                                       Op(IF removed THEN "remove"
                                          ELSE "remove_failed", name))
    /\ AfterItem(Len(SourceNames), "fetch")
    /\ UNCHANGED <<fetched_data, run_transformed, read_dfs, rerr>>
    /\ UNCHANGED nonRun

\* a download loop that records the error of a fetch and goes on with the
\* next source
FetchSource_ErrorSkipsSource ==
    /\ rpc = "fetch"
    /\ \E result \in FetchResults :
           LET name == SourceNames[file_i]
           IN  /\ trace' = Append(trace, Op("fetch", name))
               /\ IF result = "error"
                  THEN /\ rerr' = "FetchError"
                       /\ UNCHANGED fetched_data
                  ELSE /\ fetched_data' =
                              Append(fetched_data,
                                     [source |-> name, result |-> result])
                       /\ UNCHANGED rerr
               /\ AfterItem(Len(SourceNames), "transform")
    /\ UNCHANGED <<files, run_transformed, read_dfs>>
    /\ UNCHANGED nonRun

\* WorldBankIngestion.run, one pass of the download loop: the exception of
\* fetch_paginated_data is not caught
FetchSource ==
    /\ rpc = "fetch"
    /\ \E result \in FetchResults :
           LET name == SourceNames[file_i]
           IN  /\ trace' = Append(trace, Op("fetch", name))
               /\ IF result = "error"
                  THEN /\ rpc' = "raised"
                       /\ rerr' = "FetchError"
                       /\ UNCHANGED <<file_i, fetched_data>>
                  ELSE /\ fetched_data' =
                              Append(fetched_data,
                                     [source |-> name, result |-> result])
                       /\ AfterItem(Len(SourceNames), "transform")
                       /\ UNCHANGED rerr
    /\ UNCHANGED <<files, run_transformed, read_dfs>>
    /\ UNCHANGED nonRun

\* the sources of fetched_data that _transform_data returns
TransformedSources ==
    SelectSeq(fetched_data, LAMBDA f : f.result = "rows")

\* WorldBankIngestion.run, step 4: _transform_data(fetched_data)
TransformFetched ==
    /\ rpc = "transform"
    /\ trace' = Append(trace, Op("transform", ""))
    /\ IF \E i \in 1..Len(fetched_data) : fetched_data[i].result = "malformed"
       THEN /\ rpc' = "raised"
            /\ rerr' = "AttributeError"
            /\ UNCHANGED <<file_i, run_transformed>>
       ELSE /\ run_transformed' =
                   [i \in 1..Len(TransformedSources) |->
                       TransformedSources[i].source]
            /\ rpc' = IF TransformedSources = <<>> THEN "tests" ELSE "save"
            /\ file_i' = 1
            /\ UNCHANGED rerr
    /\ UNCHANGED <<files, fetched_data, read_dfs>>
    /\ UNCHANGED nonRun

\* WorldBankIngestion.run, one pass of the save loop: df.to_csv
SaveCsv ==
    /\ rpc = "save"
    /\ files' = [files EXCEPT ![run_transformed[file_i]] = "csv"]
    /\ trace' = Append(trace, Op("save", run_transformed[file_i]))
    /\ AfterItem(Len(run_transformed), "tests")
    /\ UNCHANGED <<fetched_data, run_transformed, read_dfs, rerr>>
    /\ UNCHANGED nonRun

\* run_unit_tests raises RuntimeError when a test fails
RunUnitTests(after) ==
    /\ trace' = Append(trace, Op("tests", ""))
    /\ \E passed \in BOOLEAN :
           IF passed
           THEN rpc' = after /\ UNCHANGED rerr
           ELSE rpc' = "raised" /\ rerr' = "RuntimeError"
    /\ UNCHANGED <<files, file_i, fetched_data, run_transformed, read_dfs>>
    /\ UNCHANGED nonRun

\* WorldBankIngestion.run, step 6, then PipelineRunner.run goes on to the
\* database loader
IngestionTests ==
    /\ rpc = "tests"
    /\ RunUnitTests("sql")

\* DBLoader.run, step 1: execute_sql_file re-raises the error of a statement
CreateRawTables ==
    /\ rpc = "sql"
    /\ trace' = Append(trace, Op("sql", ""))
    /\ \E ok \in BOOLEAN :
           IF ok
           THEN rpc' = "read" /\ UNCHANGED rerr
           ELSE rpc' = "raised" /\ rerr' = "SQLError"
    /\ file_i' = 1
    /\ UNCHANGED <<files, fetched_data, run_transformed, read_dfs>>
    /\ UNCHANGED nonRun

\* a reader whose loop ends at the first missing file
ReadCsv_MissingEndsLoop ==
    /\ rpc = "read"
    /\ LET file == SourceNames[file_i]
       IN  /\ trace' = Append(trace, Op("read", file))
           /\ IF files[file] = "unreadable"
              THEN /\ rpc' = "raised"
                   /\ rerr' = "ReadError"
                   /\ UNCHANGED <<file_i, read_dfs>>
              ELSE IF files[file] = "none"
              THEN /\ rpc' = "load"
                   /\ file_i' = 1
                   /\ UNCHANGED <<read_dfs, rerr>>
              ELSE /\ read_dfs' = Append(read_dfs, file)
                   /\ AfterItem(Len(SourceNames), "load")
                   /\ UNCHANGED rerr
    /\ UNCHANGED <<files, fetched_data, run_transformed>>
    /\ UNCHANGED nonRun

\* _read_input_csv, one pass of its loop: a missing file is skipped, any
\* other error of pd.read_csv is raised again
ReadCsv ==
    /\ rpc = "read"
    /\ LET file == SourceNames[file_i]
       IN  /\ trace' = Append(trace, Op("read", file))
           /\ IF files[file] = "unreadable"
              THEN /\ rpc' = "raised"
                   /\ rerr' = "ReadError"
                   /\ UNCHANGED <<file_i, read_dfs>>
              ELSE /\ read_dfs' = IF files[file] = "none" THEN read_dfs
                                  ELSE Append(read_dfs, file)
                   /\ AfterItem(Len(SourceNames), "load")
                   /\ UNCHANGED rerr
    /\ UNCHANGED <<files, fetched_data, run_transformed>>
    /\ UNCHANGED nonRun

\* DBLoader.run, step 3: _load_tables_concurrent(inputs_df, max_workers=4),
\* which does not raise
LoadTables ==
    /\ rpc = "load"
    /\ trace' = Append(trace, Op("load", ""))
    /\ rpc' = "loader_tests"
    /\ UNCHANGED <<files, file_i, fetched_data, run_transformed, read_dfs,
                   rerr>>
    /\ UNCHANGED nonRun

\* DBLoader.run, step 5, then the run is finished
LoaderTests ==
    /\ rpc = "loader_tests"
    /\ RunUnitTests("finished")

RunNext ==
    \/ CleanupFile
    \/ FetchSource
    \/ TransformFetched
    \/ SaveCsv
    \/ IngestionTests
    \/ CreateRawTables
    \/ ReadCsv
    \/ LoadTables
    \/ LoaderTests

RunSpec == RunInit /\ [][RunNext]_vars

\* the names of the operations op of the trace, in order
Performed(op) ==
    LET sel == SelectSeq(trace, LAMBDA e : e.op = op)
    IN  [i \in 1..Len(sel) |-> sel[i].name]

\* the files among names that exist
Existing(names) == SelectSeq(names, LAMBDA f : files[f] # "none")

\* C27: _read_input_csv skips a source whose CSV file is missing (no entry
\* in the returned mapping, no error) and reads every other source whose
\* file exists; any other read error is raised again. Its mapping holds
\* exactly the existing files among those tried so far, it returns only
\* after trying every configured source, and it raises only at a file that
\* exists and cannot be read.
C27_MissingCsvSkipped ==
    LET tried == Performed("read")
    IN  /\ rerr = "ReadError" =>
               /\ tried # <<>>
               /\ files[tried[Len(tried)]] = "unreadable"
               /\ read_dfs = Existing(SubSeq(tried, 1, Len(tried) - 1))
        /\ rerr # "ReadError" =>
               /\ read_dfs = Existing(tried)
               /\ \A i \in 1..Len(tried) : files[tried[i]] # "unreadable"
        /\ rpc \in {"load", "loader_tests", "finished"} =>
               tried = SourceNames

C27_Witness ==
    /\ rpc = "load"
    /\ files[SourceNames[1]] = "none"
    /\ files[SourceNames[2]] = "csv"
    /\ read_dfs = <<SourceNames[2]>>
    /\ rerr = "none"

\* C28: when the fetch of one source raises, the run is over:
\* WorldBankIngestion.run raises the error, the failing fetch is the last
\* operation of the run (no later source is fetched, nothing is
\* transformed, no CSV is saved) and the database loader is never started.
C28_FetchErrorAbortsRun ==
    rerr = "FetchError" =>
        /\ rpc = "raised"
        /\ trace[Len(trace)].op = "fetch"
        /\ Performed("fetch")
               = SubSeq(SourceNames, 1, Len(Performed("fetch")))
        /\ Len(fetched_data) = Len(Performed("fetch")) - 1
        /\ \A i \in 1..Len(trace) :
               trace[i].op \notin {"transform", "save", "tests", "sql",
                                   "read", "load"}
        /\ run_transformed = <<>>
        /\ read_dfs = <<>>

C28_Witness ==
    /\ rerr = "FetchError"
    /\ rpc = "raised"
    /\ Performed("fetch") = <<SourceNames[1]>>
    /\ Len(SourceNames) > 1

\* ------------------------------------------------------------------------
\* ApiIngestion._find_key_recursive on nested response bodies
\* ------------------------------------------------------------------------

\* number of distinct numbers among the leaf values of a body
MaxLeaf == 2

\* the leaf values of a body: null and numbers
Leaves(n) == {JNull} \cup {Num(i) : i \in 1..n}

\* the mappings of one or two entries with values in V, under the keys
\* "total", "a" and "b"
DictsOver(V) ==
    {Dict(<<KV(k, v)>>) : k \in {"total", "a"}, v \in V}
    \cup {Dict(<<KV(ks[1], v), KV(ks[2], w)>>) :
             ks \in {<<"total", "b">>, <<"a", "total">>, <<"a", "b">>},
             v \in V, w \in V}

\* the mappings {"total": leaf}
TotalDicts(n) == {Dict(<<KV("total", v)>>) : v \in Leaves(n)}

\* the bodies searched: leaves, sequences holding a mapping, and mappings
\* nested up to three levels, with sequences among their values
Docs(n) ==
    LET inner == DictsOver(Leaves(n) \cup TotalDicts(n))
        lists == {List(<<d>>) : d \in TotalDicts(n)}
    IN  Leaves(n) \cup lists \cup DictsOver(Leaves(n) \cup inner \cup lists)

\* _find_key_recursive is called on a body
FindInit ==
    /\ FetchIdle
    /\ TransformIdle
    /\ LoadIdle
    /\ RunIdle
    /\ ScriptIdle
    /\ doc \in Docs(MaxLeaf)
    /\ target_key \in {"total", "b"}
    /\ found = <<>>
    /\ kpc = "called"

\* the call returns
FindKey ==
    /\ kpc = "called"
    /\ found' = <<_find_key_recursive(doc, target_key)>>
    /\ kpc' = "returned"
    /\ UNCHANGED <<doc, target_key>>
    /\ UNCHANGED nonFind

FindNext == FindKey

FindSpec == FindInit /\ [][FindNext]_vars

RECURSIVE MappingsOf(_), MappingsIn(_, _)

\* the mappings of a body in depth-first order: the body itself if it is a
\* mapping, then the mappings of each of its values in turn; nothing inside
\* a sequence
MappingsOf(data) ==
    IF IsDict(data) THEN <<data>> \o MappingsIn(data.val, 1) ELSE <<>>

MappingsIn(pairs, i) ==
    IF i > Len(pairs) THEN <<>>
    ELSE MappingsOf(pairs[i].x) \o MappingsIn(pairs, i + 1)

RECURSIVE SearchedOf(_, _), SearchedIn(_, _, _)

\* the same, without the mappings nested in a mapping that contains key
SearchedOf(data, key) ==
    IF ~IsDict(data) THEN <<>>
    ELSE IF HasKey(data, key) THEN <<data>>
    ELSE <<data>> \o SearchedIn(data.val, 1, key)

SearchedIn(pairs, i, key) ==
    IF i > Len(pairs) THEN <<>>
    ELSE SearchedOf(pairs[i].x, key) \o SearchedIn(pairs, i + 1, key)

\* the value under key of the first mapping of ms that satisfies Holds, null
\* when there is none
FirstValue(ms, key, Holds(_)) ==
    LET hits == SelectSeq(ms, Holds)
    IN  IF hits = <<>> THEN JNull ELSE GetKey(hits[1], key)

\* C29 as stated: _find_key_recursive returns the value of the target key
\* from the first mapping reached, depth-first through mappings only, that
\* contains the key, and null when there is none.
C29_Original ==
    kpc = "returned" =>
        found[1] = FirstValue(MappingsOf(doc), target_key,
                              LAMBDA m : HasKey(m, target_key))

\* C29, amended: _find_key_recursive searches depth-first through nested
\* mappings only, the current level before any nested level, and does not
\* search below a mapping that contains the key; it returns the value of
\* the key from the first mapping reached that holds it with a non-null
\* value, and null when there is none: when the key occurs only inside a
\* sequence, only with null values, or the body is not a mapping.
C29_FirstNonNullDepthFirst ==
    kpc = "returned" =>
        /\ found[1] = FirstValue(SearchedOf(doc, target_key), target_key,
                                 LAMBDA m : /\ HasKey(m, target_key)
                                            /\ GetKey(m, target_key) # JNull)
        /\ ~IsDict(doc) => found[1] = JNull
        /\ (IsDict(doc) /\ HasKey(doc, target_key)) =>
               found[1] = GetKey(doc, target_key)

C29_Witness ==
    /\ kpc = "returned"
    /\ target_key = "total"
    /\ doc = Dict(<<KV("a", Dict(<<KV("total", JNull)>>)),
                    KV("b", Dict(<<KV("total", Num(2))>>))>>)
    /\ found = <<Num(2)>>

\* ------------------------------------------------------------------------
\* The template script: ScriptOne.run with BaseClass.load_data of
\* filiere_data_template
\* ------------------------------------------------------------------------

\* number of rows the query of ScriptOne returns at most
MaxEntities == 2

\* the table ScriptOne loads
FrenchEntities == "FrenchEntities"

\* a row of the entity query
Entity(id, isoHq) == [id |-> id, isoHq |-> isoHq]

EntityRows == {Entity(1, "FR"), Entity(2, "DE"), Entity(3, "FR")}

\* the results of the query: up to n rows
QueryResults(n) == UNION {[1..k -> EntityRows] : k \in 0..n}

\* rows an earlier run left in the production table, and rows an earlier,
\* interrupted run left in the staging table
OldEntities == <<Entity(9, "FR")>>
StaleEntities == <<Entity(8, "FR")>>

\* ScriptOne.run is called on a database in which earlier runs may have left
\* the table
ScriptInit ==
    /\ FetchIdle
    /\ TransformIdle
    /\ LoadIdle
    /\ RunIdle
    /\ FindIdle
    /\ run_tests \in BOOLEAN
    /\ entity_data = <<>>
    /\ french_entities = <<>>
    /\ tpl_staging \in {[t \in {FrenchEntities} |-> x] :
                          x \in {<<>>, <<StaleEntities>>}}
    /\ tpl_prod \in {[t \in {FrenchEntities} |-> x] :
                       x \in {<<>>, <<OldEntities>>}}
    /\ spc = "read"
    /\ sops = <<>>

\* step 1: read_file_as_df("query.sql"), which raises when the query fails
ReadFile ==
    /\ spc = "read"
    /\ \/ /\ entity_data' \in QueryResults(MaxEntities)
          /\ spc' = "transform"
          /\ sops' = Append(sops, "read")
       \/ /\ spc' = "read_failed"
          /\ UNCHANGED <<entity_data, sops>>
    /\ UNCHANGED <<run_tests, french_entities, tpl_staging, tpl_prod>>
    /\ UNCHANGED nonScript

\* transform_data: df[df["isoHq"] == "FR"]
transform_data(df) == SelectSeq(df, LAMBDA row : row.isoHq = "FR")

\* step 2, and the test of run_tests
TransformData ==
    /\ spc = "transform"
    /\ french_entities' = transform_data(entity_data)
    /\ spc' = IF run_tests THEN "tests" ELSE "write"
    /\ sops' = Append(sops, "transform")
    /\ UNCHANGED <<run_tests, entity_data, tpl_staging, tpl_prod>>
    /\ UNCHANGED nonScript

\* a test step that logs the failure of the tests and goes on
ScriptTests_FailureIgnored ==
    /\ spc = "tests"
    /\ \E passed \in BOOLEAN :
           /\ sops' = Append(sops, IF passed THEN "tests_passed"
                                   ELSE "tests_failed")
           /\ spc' = "write"
    /\ UNCHANGED <<run_tests, entity_data, french_entities, tpl_staging,
                   tpl_prod>>
    /\ UNCHANGED nonScript

\* step 3: run_unit_tests raises RuntimeError when a test fails
ScriptTests ==
    /\ spc = "tests"
    /\ \E passed \in BOOLEAN :
           /\ sops' = Append(sops, IF passed THEN "tests_passed"
                                   ELSE "tests_failed")
           /\ spc' = IF passed THEN "write" ELSE "tests_failed"
    /\ UNCHANGED <<run_tests, entity_data, french_entities, tpl_staging,
                   tpl_prod>>
    /\ UNCHANGED nonScript

\* df_to_sql(df, table_name, index=False, if_exists="append"): the rows are
\* added to the table if it exists
df_to_sql(schema, t, df) ==
    [schema EXCEPT ![t] = IF @ = <<>> THEN <<df>> ELSE <<@[1] \o df>>]

\* step 4, load_data: the staging write
TemplateStagingWrite ==
    /\ spc = "write"
    /\ tpl_staging' = df_to_sql(tpl_staging, FrenchEntities, french_entities)
    /\ spc' = "drop"
    /\ sops' = Append(sops, "write")
    /\ UNCHANGED <<run_tests, entity_data, french_entities, tpl_prod>>
    /\ UNCHANGED nonScript

\* move_table_from_staging: DROP TABLE IF EXISTS prod.t
TemplateDrop ==
    /\ spc = "drop"
    /\ tpl_prod' = [tpl_prod EXCEPT ![FrenchEntities] = <<>>]
    /\ spc' = "rename"
    /\ sops' = Append(sops, "drop")
    /\ UNCHANGED <<run_tests, entity_data, french_entities, tpl_staging>>
    /\ UNCHANGED nonScript

\* move_table_from_staging: RENAME TABLE staging.t TO prod.t
TemplateRename ==
    /\ spc = "rename"
    /\ IF tpl_staging[FrenchEntities] = <<>> \/ tpl_prod[FrenchEntities] # <<>>
       THEN /\ spc' = "load_failed"
            /\ UNCHANGED <<tpl_staging, tpl_prod, sops>>
       ELSE /\ tpl_prod' = [tpl_prod EXCEPT ![FrenchEntities] =
                                              tpl_staging[FrenchEntities]]
            /\ tpl_staging' = [tpl_staging EXCEPT ![FrenchEntities] = <<>>]
            /\ spc' = "finished"
            /\ sops' = Append(sops, "rename")
    /\ UNCHANGED <<run_tests, entity_data, french_entities>>
    /\ UNCHANGED nonScript

\* a statement of load_data raises (connection lost): the run ends there
TemplateLoadFails ==
    /\ spc \in {"write", "drop", "rename"}
    /\ spc' = "load_failed"
    /\ UNCHANGED <<run_tests, entity_data, french_entities, tpl_staging,
                   tpl_prod, sops>>
    /\ UNCHANGED nonScript

ScriptNext ==
    \/ ReadFile
    \/ TransformData
    \/ ScriptTests
    \/ TemplateStagingWrite
    \/ TemplateDrop
    \/ TemplateRename
    \/ TemplateLoadFails

ScriptSpec == ScriptInit /\ [][ScriptNext]_vars

\* an operation of load_data is among those performed
LoadDataCalled == \E i \in 1..Len(sops) : sops[i] \in {"write", "drop", "rename"}

\* the unit tests were run and passed
TestsPassed == \E i \in 1..Len(sops) : sops[i] = "tests_passed"

\* C30: in ScriptOne.run with run_tests enabled, load_data is called only
\* after the unit tests passed, and no step changes the staging or the
\* production schema before that; when run_unit_tests raises, the run ends
\* without any operation of load_data.
C30_LoadOnlyAfterTestsPassed ==
    /\ []((run_tests /\ spc # "idle") =>
             /\ (LoadDataCalled \/ spc \in {"write", "drop", "rename"})
                    => TestsPassed
             /\ spc = "tests_failed" => ~LoadDataCalled /\ ~TestsPassed)
    /\ [][(run_tests /\ ~TestsPassed) =>
              UNCHANGED <<tpl_staging, tpl_prod>>]_vars

C30_Witness ==
    /\ run_tests
    /\ spc = "tests_failed"
    /\ french_entities # <<>>
    /\ tpl_prod[FrenchEntities] = <<OldEntities>>
    /\ tpl_staging[FrenchEntities] = <<>>
    /\ ~LoadDataCalled

\* C31: once total_pages holds a value, no step of the fetch changes it,
\* whatever total the later responses carry.
C31_TotalPagesCapturedOnce ==
    [][total_pages # NoTotal => total_pages' = total_pages]_vars

\* a third page was processed whose body declares a total of 4 while the
\* call keeps the 3 it captured from the second page
C31_Witness ==
    /\ remote.shape = "keyed_latetotal"
    /\ remote.total = 3
    /\ args.total_pages_param = "total_pages"
    /\ served.page = 3
    /\ lastOutcome = "ok"
    /\ ExposedTotal(3) = 4
    /\ total_pages = 3

\* C32: the retry check precedes every request: retries never exceeds
\* max_retries, a request is issued only while retries < max_retries, the
\* number of consecutive requests for one page never exceeds max_retries,
\* and with max_retries = 0 the fetch raises without issuing any request.
C32_RetryCheckPrecedesRequest ==
    /\ [](/\ retries <= args.max_retries
          /\ pageReqs <= args.max_retries
          /\ args.max_retries = 0 =>
                 /\ getCalls = 0
                 /\ pc \in {"start", "loop", "raised"}
                 /\ pc = "raised" => err = "Max retries exceeded")
    /\ [][getCalls' # getCalls => retries < args.max_retries]_vars

\* the budget of the second page is used up by failed requests
C32_Witness ==
    /\ pc = "raised"
    /\ err = "Max retries exceeded"
    /\ args.max_retries > 0
    /\ lastReq = 2
    /\ pageReqs = args.max_retries
    /\ retries = args.max_retries

\* C36: a non-empty page with fewer than per_page records ends the fetch
\* also when a total-page count is known and greater than the current page:
\* the fetch returns with the records of that page appended and the pages
\* the declared total says remain are never requested.
C36_PartialPageStopsBeforeDeclaredTotal ==
    (LastPagePartial /\ total_pages # NoTotal /\ lastReq < total_pages) =>
        /\ pc = "returned"
        /\ err = "none"
        /\ page = lastReq
        /\ all_data = PagesConcat(lastReq)
        /\ \A p \in (lastReq + 1)..total_pages : served.page # p

\* a short second page while the endpoint declares three pages
C36_Witness ==
    /\ LastPagePartial
    /\ remote.shape = "worldbank"
    /\ total_pages = 3
    /\ lastReq = 2
    /\ pc = "returned"
    /\ Len(all_data) = 3

\* one of the three termination conditions holds of the page last received
TerminationFired ==
    \/ LastPageEmpty
    \/ /\ lastOutcome = "ok"
       /\ ExtractsWell(lastReq)
       /\ Truthy(PageDataOf(lastReq))
       /\ \/ total_pages # NoTotal /\ lastReq >= total_pages
          \/ PyLen(PageDataOf(lastReq)) < per_page

\* the exceptions that leave the call right after one failed request
ImmediateErrors ==
    {"HTTPError", "JSONDecodeError", "KeyError", "IndexError", "TypeError",
     "ValueError", "AttributeError"}

\* C37: a call ends in one of three ways and never returns partial data: it
\* returns only from a response on which a termination condition fired, with
\* the records of every page up to it; it raises "Max retries exceeded" with
\* the retry budget used up; or it raises the error of its last request.  A
\* call that raised stays raised: the records accumulated from the earlier
\* pages are never returned.
C37_ThreeOutcomesNoPartialData ==
    /\ [](/\ pc \in {"start", "loop", "returned", "raised"}
          /\ pc = "returned" =>
                 /\ err = "none"
                 /\ TerminationFired
                 /\ all_data = PagesConcat(LastNonEmptyPage)
          /\ pc = "raised" =>
                 \/ /\ err = "Max retries exceeded"
                    /\ retries >= args.max_retries
                 \/ /\ err \in ImmediateErrors
                    /\ lastOutcome = "ok" => ~TerminationFired
          /\ pc \in {"start", "loop"} => err = "none")
    /\ [][/\ pc = "raised" => pc' = "raised" /\ err' = err
          /\ pc = "returned" => pc' = "returned" /\ all_data' = all_data
          /\ (pc' = "returned" /\ pc # "returned") =>
                 pc = "loop" /\ lastOutcome' = "ok"]_vars

\* a non-retryable error on page 2 after a full first page was accumulated
C37_Witness ==
    /\ pc = "raised"
    /\ err = "HTTPError"
    /\ lastReq = 2
    /\ Len(all_data) = per_page
    /\ all_data = PagesConcat(1)

\* The call runs in one thread that is never suspended for good: time.sleep
\* returns and session.get answers or times out (timeout=30), so an
\* iteration that can be taken is eventually taken.
FairSpec == Init /\ [][Next]_vars /\ WF_vars(Next)

\* read the way the call reads it, the remote collection has a page on which
\* an iteration without failure stops: an empty page, a short page, a page at
\* or past the declared total, or a page the call raises on
RemoteStops == CleanFetch(1, NoTotal, <<>>).ctl # "next"

\* C38: fetch_paginated_data terminates: when the remote collection has a
\* page that stops the loop, then whatever transient failures the endpoint
\* answers with, the call eventually returns or raises, and it never sends
\* more than max_retries requests for one page.
C38_FetchTerminates ==
    /\ (pc = "start") ~> (pc = "loop")
    /\ (pc = "loop" /\ getCalls = 0 /\ RemoteStops) ~>
           (pc \in {"returned", "raised"})
    /\ [](pageReqs <= args.max_retries)

\* a call that returned after using the whole budget but one on a page
C38_Witness ==
    /\ pc = "returned"
    /\ served.page = 2
    /\ served.fails = args.max_retries - 1
    /\ served.reqs = args.max_retries
    /\ served.fails > 0

\* C33: the staging write of the template loader replaces an existing staging
\* table of that name: after a load that completed, also one that found a
\* stale table in staging, the production table holds exactly the rows of
\* that call.
C33_StagingWriteReplacesStaleTable ==
    spc = "finished" => tpl_prod[FrenchEntities] = <<french_entities>>

\* C34: the promotion is not atomic: while a load stands between its
\* production drop and its rename, also when the process was interrupted
\* there, the table is absent from production and the new rows exist only in
\* staging; this holds too of a table the preceding call had promoted.
C34_PromotionNotAtomic ==
    \A t \in DOMAIN load :
        load[t] = "rename" =>
            /\ prod[t] = <<>>
            /\ staging[t] = <<inputs_df[t]>>
            /\ ops[t] = <<"write", "drop">>

\* the second call was interrupted between the drop and the rename of a
\* table that the first call had promoted
C34_Witness ==
    /\ lpc = "crashed"
    /\ runs = 2
    /\ \E t \in DOMAIN load :
           /\ prev[t] = "ok"
           /\ load[t] = "rename"
           /\ prod[t] = <<>>
           /\ staging[t] = <<CsvFrame(t)>>

\* C35: concurrent loads of tables with distinct names do not interfere: a
\* step changes the staging and production tables of a name only when it is
\* a statement of the load of that name, so that in every interleaving a
\* call that returned without a failure from outside leaves in production
\* exactly the rows submitted for each table, an empty staging schema, and
\* the production tables it was not given as they were.
C35_ConcurrentLoadsDoNotInterfere ==
    /\ [](lpc = "returned" /\ faults = {} =>
             /\ \A t \in DOMAIN inputs_df :
                    load[t] = "ok" /\ prod[t] = <<inputs_df[t]>>
             /\ \A t \in Tables \ DOMAIN inputs_df :
                    prod[t] \in {<<>>, <<OldFrame(t)>>}
             /\ staging = [t \in Tables |-> <<>>])
    /\ [][\A t \in Tables :
             (staging'[t] # staging[t] \/ prod'[t] # prod[t]) =>
                 /\ t \in DOMAIN load
                 /\ load[t] \in {"write", "drop", "rename"}
                 /\ load'[t] # load[t]
                 /\ \A u \in Tables \ {t} :
                        staging'[u] = staging[u] /\ prod'[u] = prod[u]]_vars

\* two loads under way at once, the statements of one executed between the
\* statements of the other: both have written and dropped, and each staging
\* table holds the rows of its own load
C35_Witness ==
    /\ lpc = "wait"
    /\ max_workers = 2
    /\ \E t, u \in DOMAIN inputs_df :
           /\ t # u
           /\ load[t] = "rename"
           /\ load[u] = "rename"
           /\ staging[t] = <<CsvFrame(t)>>
           /\ staging[u] = <<CsvFrame(u)>>
           /\ prod[t] = <<>>
           /\ prod[u] = <<>>

\* the set of names of a sequence of names
NamesOf(names) == {names[i] : i \in 1..Len(names)}

\* every operation of the kinds first comes before every operation of the
\* kinds later in the trace
Precede(first, later) ==
    \A i, j \in 1..Len(trace) :
        (trace[i].op \in later /\ trace[j].op \in first) => j < i

\* the statement as claimed: a run that a fetch error ended leaves no CSV
\* file of a configured source
C39_Original ==
    rerr = "FetchError" => \A f \in NamesOf(SourceNames) : files[f] = "none"

\* C39: in WorldBankIngestion.run the removal of every existing CSV file is
\* attempted before any source is fetched, and files are written only after
\* every source was fetched; hence when a fetch fails no file was written and
\* the CSV files left are exactly those whose removal failed.
C39_CleanupBeforeFetchSaveAfter ==
    /\ Precede({"remove", "remove_failed"}, {"fetch"})
    /\ Precede({"fetch"}, {"save"})
    /\ Performed("save") # <<>> => Performed("fetch") = SourceNames
    /\ rerr = "FetchError" =>
           /\ Performed("save") = <<>>
           /\ \A f \in NamesOf(SourceNames) :
                  files[f] # "none" <=> f \in NamesOf(Performed("remove_failed"))

\* the second fetch failed after one file was removed and the removal of the
\* other had failed
C39_Witness ==
    /\ rerr = "FetchError"
    /\ Len(Performed("fetch")) = 2
    /\ Performed("remove") = <<SourceNames[1]>>
    /\ Performed("remove_failed") = <<SourceNames[2]>>
    /\ files[SourceNames[1]] = "none"
    /\ files[SourceNames[2]] = "csv"

====
